---- MODULE Spec2Model ----
(***************************************************************************)
(* dbpulse: the supervision loop (src/pulse.rs run_loop), the process      *)
(* entry point that races it against the HTTP server (src/pulse.rs start)  *)
(* and the metric registry both of them share (src/metrics.rs).            *)
(*                                                                         *)
(* Strings whose content the code inspects (the server version) are        *)
(* sequences of words, so that str::contains is a computed sub-sequence    *)
(* search.  Option<T> is a sequence of length 0 (None) or 1 (Some).        *)
(***************************************************************************)
EXTENDS Integers, Sequences, FiniteSets, TLC

\* ------------------------------------------------------------------ bounds
\* Iterations the supervision loop may start in one run of the model.
MaxIter == 3
\* Largest --interval value (seconds) drawn at start-up.
MaxEvery == 1
\* Largest measured runtime of one iteration, in clock units.
MaxRuntime == 2

\* Longest error text, in words, handed to the error classification on its own.
MaxWords == 2

\* Largest --range value: the probe draws its row id from 0 .. range - 1.
MaxRange == 2
\* A --range wide enough for ids the hourly drop leaves alone.
WideRange == 6
\* Statements other instances may run on the monitor table during one probe.
MaxInterference == 2
\* Largest TTL of a certificate cache, in clock ticks.
MaxTtl == 2
\* Ticks the cache's clock may advance.
MaxClock == 3
\* Latest now a certificate's expiry is computed at, in half days.
MaxHalfDays == 5
\* Failed certificate probes counted in one run of the model.
MaxProbeErrors == 2
MaxFaults == 2
MaxMicros == 2
MaxVersionLen == 2
MaxProbeFaults == 1

\* Clock units per second (chrono::Duration keeps sub-second precision; the
\* model's clock is this fine).
UnitsPerSecond == 2

\* --------------------------------------------------------------- constants

None == << >>

\* i32::MAX
I32Max == 2147483647

\* seconds in the 24 hours num_days() counts
SecsPerDay == 86400

\* Times an iteration starts at, in seconds: one in minute 0 of the hour, one
\* in minute 1.
Nows == {30, 90}

\* Uuid::new_v4() of this instance; "u0" and "u3" are uuids of others, "tx"
\* the one generated by the server inside the transaction.
OwnUuids == {"u1", "u2"}

Some(x) == << x >>

\* DSN drivers a run can be started with; "sqlite" stands for any driver
\* that is none of postgres, postgresql, mysql.
Drivers == {"postgres", "postgresql", "mysql", "sqlite"}

SupportedDrivers == {"postgres", "postgresql", "mysql"}

\* Server versions as the database reports them.
BaseVersions == {<<"16.3">>, <<"16.4">>}

\* Backend host identifiers (db_host of HealthCheckResult).
Hosts == {None, Some("db-a"), Some("db-b")}

\* Error texts of the probe's own checks (anyhow! in postgres.rs / mysql.rs).
ErrRecordsDontMatch == <<"Records", "don't", "match:", "expected", "got">>

ErrExpectedRecords == <<"Expected", "records">>

ErrTransactionUpdateFailed ==
    <<"Transaction", "update", "failed:", "expected", "0,", "got">>

ErrTransactionRollbackFailed ==
    <<"Transaction", "rollback", "failed:", "value", "is", "still", "0">>

\* Error texts of the driver (sqlx): a refused connection, a failed TLS
\* handshake.
ErrConnectionRefused == <<"connection", "refused">>

ErrTlsHandshake ==
    <<"error", "occurred", "while", "attempting", "to", "establish", "a",
      "TLS", "connection">>

\* Error texts (format!("{e:#}")) a failed probe of the loop carries here: one
\* of the probe's own checks, one of the driver's that names TLS.
ErrorTexts == {ErrTransactionRollbackFailed, ErrTlsHandshake}

\* TlsMode
TlsModes == {"Disable", "Require", "VerifyCA", "VerifyFull"}

\* The (dsn.driver, tls.mode) pairs a run is started with: every driver and
\* every mode, each arm of run_loop with TLS disabled and enabled.
Configs ==
    {<<"postgres", "Disable">>, <<"postgres", "Require">>,
     <<"postgresql", "VerifyCA">>, <<"mysql", "Disable">>,
     <<"mysql", "VerifyFull">>, <<"sqlite", "Disable">>}

\* Label values of errors_total{error_type}.
ErrorTypes == {"authentication", "timeout", "connection", "transaction", "query"}

\* Runtimes (end - now) an iteration can measure; the wall clock may step
\* backwards, which gives a negative runtime.
Runtimes == (0 - 1) .. MaxRuntime

\* ------------------------------------------------------------ pure helpers
\* str::contains on word sequences.
Contains(hay, needle) ==
    \E i \in 1 .. (Len(hay) - Len(needle) + 1) :
        SubSeq(hay, i, i + Len(needle) - 1) = needle

\* format!("{} - {reason}", version)
Annotate(version, reason) == version \o <<"-">> \o reason

\* Variant: the postgres arm looks for the recovery annotation only.
is_database_read_only_recovery_only(db, version) ==
    IF db \in {"postgres", "postgresql"}
    THEN Contains(version, <<"recovery", "mode">>)
    ELSE Contains(version, <<"read-only">>)

is_database_read_only(db, version) ==
    IF db \in {"postgres", "postgresql"}
    THEN Contains(version, <<"recovery", "mode">>) \/ Contains(version, <<"read-only">>)
    ELSE Contains(version, <<"read-only">>)

\* TlsMode::is_enabled
is_enabled(mode) == mode # "Disable"

\* Variant: only the lower-case spellings are looked for.
is_tls_error_lowercase(error_str) ==
    \/ Contains(error_str, <<"ssl">>)
    \/ Contains(error_str, <<"tls">>)
    \/ Contains(error_str, <<"certificate">>)

is_tls_error(error_str) ==
    \/ Contains(error_str, <<"ssl">>)
    \/ Contains(error_str, <<"SSL">>)
    \/ Contains(error_str, <<"tls">>)
    \/ Contains(error_str, <<"TLS">>)
    \/ Contains(error_str, <<"certificate">>)
    \/ Contains(error_str, <<"Certificate">>)

\* "Classify error type" of the postgres arm.
error_type_postgres(error_str) ==
    IF Contains(error_str, <<"authentication">>) \/ Contains(error_str, <<"password">>)
    THEN "authentication"
    ELSE IF Contains(error_str, <<"timeout">>)
    THEN "timeout"
    ELSE IF Contains(error_str, <<"connection">>) \/ Contains(error_str, <<"refused">>)
    THEN "connection"
    ELSE IF Contains(error_str, <<"transaction">>)
    THEN "transaction"
    ELSE "query"

\* Variant: the connection keywords are looked for before "timeout".
error_type_mysql_connection_first(error_str) ==
    IF \/ Contains(error_str, <<"authentication">>)
       \/ Contains(error_str, <<"password">>)
       \/ Contains(error_str, <<"Access", "denied">>)
    THEN "authentication"
    ELSE IF Contains(error_str, <<"connection">>) \/ Contains(error_str, <<"refused">>)
    THEN "connection"
    ELSE IF Contains(error_str, <<"timeout">>)
    THEN "timeout"
    ELSE IF Contains(error_str, <<"transaction">>)
    THEN "transaction"
    ELSE "query"

\* "Classify error type" of the mysql arm.
error_type_mysql(error_str) ==
    IF \/ Contains(error_str, <<"authentication">>)
       \/ Contains(error_str, <<"password">>)
       \/ Contains(error_str, <<"Access", "denied">>)
    THEN "authentication"
    ELSE IF Contains(error_str, <<"timeout">>)
    THEN "timeout"
    ELSE IF Contains(error_str, <<"connection">>) \/ Contains(error_str, <<"refused">>)
    THEN "connection"
    ELSE IF Contains(error_str, <<"transaction">>)
    THEN "transaction"
    ELSE "query"

\* The error_type run_loop computes in the Err branch of each driver's arm.
error_type(database, error_str) ==
    IF database = "postgres"
    THEN error_type_postgres(error_str)
    ELSE error_type_mysql(error_str)

\* now.timestamp(): the wall-clock reading taken at the head of an iteration,
\* here the number of that iteration.
timestamp(now) == now

\* The database label run_loop uses for a supported driver.
metric_db(db_driver) ==
    IF db_driver \in {"postgres", "postgresql"} THEN "postgres" ELSE db_driver

\* Duration::seconds(every.into())
wait_time_of(every_s) == every_s * UnitsPerSecond

\* Variant: the remainder is cut to whole seconds.
remaining_sleep_duration_whole_seconds(wait_time, runtime) ==
    LET seconds == (wait_time - runtime) \div UnitsPerSecond
    IN  IF seconds > 0 THEN Some(seconds * UnitsPerSecond) ELSE None

\* wait_time.checked_sub(runtime), to_std().ok(), filter(!is_zero)
remaining_sleep_duration(wait_time, runtime) ==
    IF wait_time - runtime > 0 THEN Some(wait_time - runtime) ELSE None

\* The result of postgres::test_rw / mysql::test_rw for one posture of the
\* database: a read-only or recovering server is answered with the annotated
\* version before any read/write step; rw is TRUE iff the whole
\* read/write/transaction sequence ran.
test_rw_ok(db_driver, posture, version, host) ==
    IF db_driver \in {"postgres", "postgresql"}
    THEN CASE posture = "recovery" ->
                [kind |-> "ok", rw |-> FALSE, db_host |-> host,
                 version |-> Annotate(version, <<"Database", "is", "in", "recovery", "mode">>)]
           [] posture = "tx_read_only" ->
                [kind |-> "ok", rw |-> FALSE, db_host |-> host,
                 version |-> Annotate(version, <<"Transaction", "read-only", "mode", "enabled">>)]
           [] OTHER ->
                [kind |-> "ok", rw |-> TRUE, db_host |-> host, version |-> version]
    ELSE IF posture = "read_only"
         THEN [kind |-> "ok", rw |-> FALSE, db_host |-> host,
               version |-> Annotate(version, <<"Database", "is", "in", "read-only", "mode">>)]
         ELSE [kind |-> "ok", rw |-> TRUE, db_host |-> host, version |-> version]

\* Postures each driver's probe distinguishes.
PosturesOf(db_driver) ==
    IF db_driver \in {"postgres", "postgresql"}
    THEN {"writable", "recovery", "tx_read_only"}
    ELSE {"writable", "read_only"}

NoResult == [kind |-> "none"]

VARIABLES
    driver,                 \* dsn.driver
    every,                  \* interval in seconds
    tls_mode,               \* tls.mode
    pc,                     \* position of run_loop
    result,                 \* what the probe of this iteration returned
    last_version_label,     \* run_loop local
    last_host_label,        \* run_loop local
    PULSE,
    ITERATIONS_TOTAL,       \* [status -> count] for this run's database label
    DB_READONLY,            \* Option<0|1>: the gauge for this database label
    PANICS_RECOVERED,
    DATABASE_VERSION_INFO,  \* set of <<database, version>> series
    DATABASE_HOST_INFO,     \* set of <<database, host>> series
    DB_ERRORS,              \* [error_type -> count] for this run's database label
    TLS_CONNECTION_ERRORS,  \* count of {database, error_type="handshake"}
    LAST_SUCCESS,           \* Option<timestamp>: the gauge for this database label
    TLS_INFO,               \* set of <<database, version, cipher>> series
    TLS_CERT_EXPIRY_DAYS,   \* Option<days>: the gauge for this database label
    iter,                   \* iterations started
    ended,                  \* iterations over (returned, failed or recovered, and slept)
    iter_base,              \* ITERATIONS_TOTAL when the current iteration started
    metrics_base,           \* the other counters and gauges at that moment
    outcome,                \* how the last iteration ended
    sleep_for,              \* Option<duration> of the sleep in progress
    monitor,                \* state of the spawned run_loop task
    chan,                   \* messages waiting in the shutdown channel
    rx_open,                \* the receiver half (rx) is still alive
    tx_open,                \* the sender half (tx, owned by run_loop) is still alive
    server,                 \* state of axum::serve
    start_pc,               \* position of start
    start_result,           \* what start returned
    call,                   \* Option<call>: a function called on its own, with its arguments
    ret,                    \* Option<value>: what that call returned
    probe,                  \* test_rw_with_table: now, range and the locals
    ppc,                    \* position of test_rw_with_table
    presult,                \* Option<Result<HealthCheckResult>> it returned
    issued,                 \* the statements it has issued
    db_posture,             \* writable, read-only or in recovery
    tbl,                    \* the monitor table
    tx,                     \* Option<row at the transient id when the transaction began>
    budget,                 \* steps other instances may still take
    run,                    \* the session of the probe and what failed in it
    cache,                  \* CertCache.data
    ttl,                    \* CertCache.ttl
    clock,                  \* Instant::now()
    got,                    \* Option<the get that was just answered>
    last_set,               \* per key, the last set: what and when
    lookup,                 \* get_cert_metadata_cached: position and locals
    TLS_CERT_PROBE_ERRORS,  \* count over all error types
    setters                 \* per task, the set it has called and not yet done

vars == << driver, every, tls_mode, pc, result, last_version_label,
           last_host_label, PULSE, ITERATIONS_TOTAL, DB_READONLY, PANICS_RECOVERED,
           DATABASE_VERSION_INFO, DATABASE_HOST_INFO, DB_ERRORS,
           TLS_CONNECTION_ERRORS, LAST_SUCCESS, TLS_INFO, TLS_CERT_EXPIRY_DAYS,
           iter, ended, iter_base,
           metrics_base, outcome, sleep_for, monitor, chan, rx_open, tx_open, server, start_pc,
           start_result, call, ret, probe, ppc, presult, issued, db_posture, tbl, tx,
           budget, run, cache, ttl, clock, got, last_set, lookup, TLS_CERT_PROBE_ERRORS,
           setters >>

\* A function applied on its own, outside the loop.
fn_vars == << call, ret >>

\* The probe followed statement by statement, and the table it works on.
probe_vars == << probe, ppc, presult, issued, db_posture, tbl, tx, budget, run >>

\* Who calls the cache: the cached lookup of the probe, tasks calling set.
caller_vars == << lookup, TLS_CERT_PROBE_ERRORS, setters >>

\* One CertCache, the clock it reads, and its callers.
cache_vars == << cache, ttl, clock, got, last_set, caller_vars >>

\* What no step of start or run_loop touches.
outside_loop == << fn_vars, probe_vars, cache_vars >>

\* errors_total, tls_connection_errors_total, last_success_timestamp_seconds
outcome_metrics == << DB_ERRORS, TLS_CONNECTION_ERRORS, LAST_SUCCESS >>

\* tls_info, tls_cert_expiry_days
tls_gauges == << TLS_INFO, TLS_CERT_EXPIRY_DAYS >>

registry == << PULSE, ITERATIONS_TOTAL, DB_READONLY, PANICS_RECOVERED,
               DATABASE_VERSION_INFO, DATABASE_HOST_INFO, outcome_metrics >>

loop_locals == << result, last_version_label, last_host_label >>

ghosts == << iter, ended, iter_base, metrics_base, outcome >>

start_state == << monitor, chan, rx_open, tx_open, server, start_pc, start_result >>

\* Everything start and run_loop read or write.
loop_vars == << driver, every, tls_mode, pc, loop_locals, registry, tls_gauges, ghosts,
               sleep_for, start_state >>

\* ------------------------------------------------ the probe, step by step
\* test_rw_with_table against one monitor table that other dbpulse
\* instances share.  A row is [t1, uuid, old]: old says that t2 is more than
\* one hour in the past.  The table is [exists, transactional, rows].

\* now.timestamp_micros() for a whole-second now
timestamp_micros(now) == now * 1000000

\* now.minute()
minute(now) == (now \div 60) % 60

\* The transient id of the rollback test.
\* Rust's `%` on i64: the remainder has the sign of the dividend
rem(a, b) == IF a >= 0 THEN a % b ELSE -((-a) % b)

\* i64::rem_euclid: never negative for a positive divisor
rem_euclid(a, b) == a % b

\* The transient id of the rollback test: Postgres takes rem_euclid, MySQL
\* takes `%` and casts to i32, which changes no value between -I32Max and
\* I32Max.
rollback_test_id(db_driver, micros) ==
    IF db_driver = "mysql" THEN rem(micros, I32Max) ELSE rem_euclid(micros, I32Max)

\* A draw that can give the upper limit itself.
RandomIds_inclusive(range) == 0 .. range

\* The ids the probe draws from: random_range(0..range).
RandomIds(range) == 0 .. (range - 1)

\* Every key the monitor table is addressed by.
Keys ==
    RandomIds(MaxRange) \cup RandomIds(WideRange)
    \cup {rollback_test_id(d, timestamp_micros(n)) : d \in {"postgres", "mysql"}, n \in Nows}

Row(t1, uuid, old) == [t1 |-> t1, uuid |-> uuid, old |-> old]

NoRows == [k \in Keys |-> None]

\* A detection that knows of recovery alone.
detected_read_only_recovery_only(db_state) == db_state = "recovery"

\* postgres_is_in_recovery, postgres_transaction_is_read_only, is_read_only
detected_read_only(db_state) == db_state # "writable"

\* What is written by somebody who compares only t1.
records_match_t1_only(now, uuid, t1, v4) == timestamp(now) = t1

\* `now.timestamp() != t1 || uuid != v4` is false
records_match(now, uuid, t1, v4) == timestamp(now) = t1 /\ uuid = v4

\* A rollback check that fails on a missing row instead of on a 0.
rollback_visible_when_missing(rolled_back_value) == rolled_back_value = None

\* `rolled_back_value == Some(0)`
rollback_visible(rolled_back_value) == rolled_back_value = Some(0)

\* INSERT ... ON CONFLICT (id) DO UPDATE SET t1, uuid: Postgres leaves t2 of
\* an existing row alone (DEFAULT applies to inserts only), MySQL's t2 is
\* ON UPDATE CURRENT_TIMESTAMP.
upsert(db_driver, rows, k, t1, uuid) ==
    [rows EXCEPT ![k] =
        Some(Row(t1, uuid,
                 IF rows[k] # None /\ db_driver \in {"postgres", "postgresql"}
                 THEN rows[k][1].old ELSE FALSE))]

\* INSERT ... VALUES (rid, 999, <fresh uuid>) ON CONFLICT DO UPDATE SET t1 = 999
upsert_999(db_driver, rows, k) ==
    IF rows[k] = None THEN [rows EXCEPT ![k] = Some(Row(999, "tx", FALSE))]
    ELSE [rows EXCEPT ![k] =
            Some(Row(999, rows[k][1].uuid,
                     IF db_driver \in {"postgres", "postgresql"}
                     THEN rows[k][1].old ELSE FALSE))]

\* UPDATE ... SET t1 = 0 WHERE id = rid
update_0(db_driver, rows, k) ==
    IF rows[k] = None THEN rows
    ELSE [rows EXCEPT ![k] =
            Some(Row(0, rows[k][1].uuid,
                     IF db_driver \in {"postgres", "postgresql"}
                     THEN rows[k][1].old ELSE FALSE))]

\* DELETE ... WHERE t2 < now - 1 hour
delete_old(rows) ==
    [k \in Keys |-> IF rows[k] # None /\ rows[k][1].old THEN None ELSE rows[k]]

\* SELECT COUNT(*)
count_rows(rows) == Cardinality({k \in Keys : rows[k] # None})

\* SELECT t1 ... WHERE id = k
select_t1(rows, k) == IF rows[k] = None THEN None ELSE Some(rows[k][1].t1)

ErrTableMissing == <<"relation", "does", "not", "exist">>

Statements ==
    {"CONNECT", "CREATE DATABASE", "RECONNECT", "SET STATEMENT TIMEOUT",
     "SET STATEMENT TIMEOUT FALLBACK", "SET LOCK TIMEOUT", "VERSION", "HOST", "UPTIME",
     "READ ONLY?", "REPLICATION LAG", "BLOCKING", "CREATE EXTENSION", "CREATE TABLE",
     "UPSERT", "SELECT", "BEGIN", "TX UPSERT", "TX UPDATE", "TX SELECT", "ROLLBACK",
     "SELECT AFTER ROLLBACK", "DELETE", "ROW COUNT", "COUNT", "DROP TABLE", "SIZES",
     "TLS"}

\* The statements of the read/write part of the probe.
ReadWriteStatements ==
    {"CREATE EXTENSION", "CREATE TABLE", "UPSERT", "SELECT", "BEGIN", "TX UPSERT",
     "TX UPDATE", "TX SELECT", "ROLLBACK", "SELECT AFTER ROLLBACK", "DELETE", "COUNT",
     "DROP TABLE"}

\* The positions of test_rw_with_table from the read/write part on.
ReadWritePositions ==
    {"blocking", "uuid_extension", "create_table", "upsert", "select", "begin",
     "tx_upsert", "tx_update", "tx_select", "rollback", "select_after", "cleanup",
     "row_count", "hourly_drop", "sizes"}

ErrStatementFailed == <<"error", "returned", "from", "database">>

Propagated_but_version ==
    {"CONNECT", "CREATE DATABASE", "RECONNECT", "SET LOCK TIMEOUT", "READ ONLY?",
     "CREATE EXTENSION", "CREATE TABLE", "UPSERT", "SELECT", "BEGIN", "TX UPSERT",
     "TX UPDATE", "TX SELECT", "ROLLBACK", "SELECT AFTER ROLLBACK"}

Propagated_but_lock_timeout ==
    {"CONNECT", "CREATE DATABASE", "RECONNECT", "VERSION", "READ ONLY?",
     "CREATE EXTENSION", "CREATE TABLE", "UPSERT", "SELECT", "BEGIN", "TX UPSERT",
     "TX UPDATE", "TX SELECT", "ROLLBACK", "SELECT AFTER ROLLBACK"}

Propagated_and_host ==
    {"CONNECT", "CREATE DATABASE", "RECONNECT", "SET LOCK TIMEOUT", "VERSION", "HOST",
     "READ ONLY?", "CREATE EXTENSION", "CREATE TABLE", "UPSERT", "SELECT", "BEGIN",
     "TX UPSERT", "TX UPDATE", "TX SELECT", "ROLLBACK", "SELECT AFTER ROLLBACK"}

\* The statements whose error test_rw_with_table returns with `?`; the
\* statement timeout is one of them on Postgres only.
Propagated ==
    {"CONNECT", "CREATE DATABASE", "RECONNECT", "SET LOCK TIMEOUT", "VERSION",
     "READ ONLY?", "CREATE EXTENSION", "CREATE TABLE", "UPSERT", "SELECT", "BEGIN",
     "TX UPSERT", "TX UPDATE", "TX SELECT", "ROLLBACK", "SELECT AFTER ROLLBACK"}

database_missing_or_any_error(answer) == answer # "ok"

\* SQLSTATE 3D000 (invalid_catalog_name) / MySQL error 1049 (unknown database)
database_missing(answer) == answer = "db_missing"

\* The session before the first statement: nothing set, nothing failed.
NoRun ==
    [faults |-> 0, failed |-> {}, tolerated |-> {}, session |-> {}, attempts |-> 0,
     first_connect |-> "none", db_exists |-> TRUE, flavor |-> "postgres"]

\* The servers an iteration can meet: the database exists or not; behind the
\* mysql driver a MySQL or a MariaDB; `faults` statements of it can fail.
RunsFound(db_driver, faults) ==
    {[NoRun EXCEPT !.faults = faults, !.db_exists = e, !.flavor = f] :
        e \in BOOLEAN,
        f \in IF db_driver = "mysql" THEN {"mysql", "mariadb"} ELSE {"postgres"}}

\* No probe is being followed statement by statement.
ProbeIdle ==
    /\ probe = None
    /\ ppc = "idle"
    /\ presult = None
    /\ issued = {}
    /\ db_posture = "writable"
    /\ tbl = [exists |-> FALSE, transactional |-> TRUE, rows |-> NoRows]
    /\ tx = None
    /\ budget = 0
    /\ run = NoRun

\* Rows of the monitor table at ids the model does not follow, as other
\* instances with a wider --range leave them.
MoreRows == {0, 99998}

\* The tables an iteration can find: none yet, an empty one, one holding an
\* old row of an earlier iteration; on MySQL also a table somebody created
\* with an engine without transactions (CREATE TABLE IF NOT EXISTS leaves it).
TablesFound(db_driver) ==
    {[exists |-> FALSE, transactional |-> TRUE, rows |-> NoRows],
     [exists |-> TRUE, transactional |-> TRUE, rows |-> NoRows],
     [exists |-> TRUE, transactional |-> TRUE,
      rows |-> [NoRows EXCEPT ![0] = Some(Row(1, "u0", TRUE))]]}
    \cup (IF db_driver = "mysql"
          THEN {[exists |-> TRUE, transactional |-> FALSE, rows |-> NoRows]}
          ELSE {})

\* -------------------------------------------------------------- CertCache
\* data: HashMap<String, (TlsMetadata, Instant)> behind one RwLock, so every
\* method is one step.  clock is Instant::now(); an entry is [metadata, at].

CacheKeys == {"db1:5432", "db2:3306"}

Metadatas == {"cert1", "cert2"}

NoEntries == [k \in CacheKeys |-> None]

\* timestamp.elapsed()
elapsed(at) == clock - at

\* A get that still answers when exactly the TTL has elapsed.
get_until_ttl(data, key) ==
    IF data[key] # None /\ elapsed(data[key][1].at) <= ttl
    THEN Some(data[key][1].metadata)
    ELSE None

\* CertCache::get
get(data, key) ==
    IF data[key] # None /\ elapsed(data[key][1].at) < ttl
    THEN Some(data[key][1].metadata)
    ELSE None

\* A set that keeps the entry a key already has.
set_if_absent(data, key, metadata) ==
    IF data[key] # None THEN data
    ELSE [data EXCEPT ![key] = Some([metadata |-> metadata, at |-> clock])]

\* CertCache::set
set(data, key, metadata) ==
    [data EXCEPT ![key] = Some([metadata |-> metadata, at |-> clock])]

\* A cleanup that keeps an entry whose age is exactly the TTL.
cleanup_after_ttl(data) ==
    [k \in CacheKeys |->
        IF data[k] # None /\ elapsed(data[k][1].at) <= ttl THEN data[k] ELSE None]

\* CertCache::cleanup
cleanup(data) ==
    [k \in CacheKeys |->
        IF data[k] # None /\ elapsed(data[k][1].at) < ttl THEN data[k] ELSE None]

\* Tasks that share the cache.
Tasks == {"task1", "task2"}

NoLookup == [pc |-> "idle"]

\* Nobody is calling the cache.
CallersIdle ==
    /\ lookup = NoLookup
    /\ TLS_CERT_PROBE_ERRORS = 0
    /\ setters = [t \in Tasks |-> None]

\* No cache is being followed.
CacheIdle ==
    /\ cache = NoEntries
    /\ ttl = 0
    /\ clock = 0
    /\ got = None
    /\ last_set = NoEntries
    /\ CallersIdle

\* Everything but the function applied on its own.
outside_fn == << loop_vars, probe_vars, cache_vars >>

\* Everything but the probe followed statement by statement.
outside_probe == << loop_vars, fn_vars, cache_vars >>

\* Everything but the cache.
outside_cache == << loop_vars, fn_vars, probe_vars, caller_vars >>

\* No function is being applied on its own.
FnIdle == call = None /\ ret = None

\* The process as start finds it.
LoopInit ==
    /\ driver \in Drivers
    /\ tls_mode \in TlsModes
    /\ << driver, tls_mode >> \in Configs
    /\ every \in 1 .. MaxEvery
    /\ pc = "top"
    /\ result = NoResult
    /\ last_version_label = None
    /\ last_host_label = None
    /\ PULSE = 0
    /\ ITERATIONS_TOTAL = [s \in {"success", "error"} |-> 0]
    /\ DB_READONLY = None
    /\ PANICS_RECOVERED = 0
    /\ DATABASE_VERSION_INFO = {}
    /\ DATABASE_HOST_INFO = {}
    /\ DB_ERRORS = [t \in ErrorTypes |-> 0]
    /\ TLS_CONNECTION_ERRORS = 0
    /\ LAST_SUCCESS = None
    /\ TLS_INFO = {}
    /\ TLS_CERT_EXPIRY_DAYS = None
    /\ iter = 0
    /\ ended = 0
    /\ iter_base = [s \in {"success", "error"} |-> 0]
    /\ metrics_base = [errors |-> [t \in ErrorTypes |-> 0], tls_errors |-> 0,
                       last_success |-> None]
    /\ outcome = "none"
    /\ sleep_for = None
    /\ monitor = "not_spawned"
    /\ chan = 0
    /\ rx_open = TRUE
    /\ tx_open = TRUE
    /\ server = "not_started"
    /\ start_pc = "bind"
    /\ start_result = "none"

Init == LoopInit /\ FnIdle /\ ProbeIdle /\ CacheIdle

\* ------------------------------------------------------------------- start
\* start up to the select!: bind the listener (either bind can fail and `?`
\* returns the error; the println! lines panic when stdout is gone), spawn
\* run_loop, build the server future.
StartBind ==
    /\ start_pc = "bind"
    /\ \/ /\ start_pc' = "select"
          /\ monitor' = "running"
          /\ server' = "serving"
          /\ UNCHANGED start_result
       \/ /\ start_pc' = "returned"
          /\ start_result' \in {"err", "panic"}
          /\ UNCHANGED << monitor, server >>
    /\ UNCHANGED << outside_loop, tls_gauges, driver, every, tls_mode,
                    pc, loop_locals, registry, ghosts, sleep_for,
                    chan, rx_open, tx_open >>

\* The process is up: start waits in select!, nothing has ended it.
ProcessUp == start_pc = "select"

\* with_graceful_shutdown(async move { rx.recv().await; }): recv returns on a
\* message and also when every sender is gone; its value is discarded, and rx
\* is dropped with the finished block.
ServerShutdown ==
    /\ ProcessUp
    /\ server = "serving"
    /\ chan > 0 \/ ~tx_open
    /\ server' = "draining"
    /\ rx_open' = FALSE
    /\ chan' = 0
    /\ UNCHANGED << outside_loop, tls_gauges, driver, every, tls_mode,
                    pc, loop_locals, registry, ghosts, sleep_for,
                    monitor, tx_open, start_pc, start_result >>

\* The graceful shutdown completes: the server future resolves to Ok(()).
ServerFinish ==
    /\ ProcessUp
    /\ server = "draining"
    /\ server' = "finished"
    /\ UNCHANGED << outside_loop, tls_gauges, driver, every, tls_mode,
                    pc, loop_locals, registry, ghosts, sleep_for,
                    monitor, chan, rx_open, tx_open, start_pc, start_result >>

\* select! arm `result = server`: result? on Ok(()) falls through to Ok(()).
server_arm_result == "ok"

\* select! arm `result = monitor_handle`: both Ok(()) and Err(e) bail!
\* (the eprintln! before the bail! panics when stderr is gone).
monitor_arm_results(task) ==
    CASE task = "returned" -> {"err", "panic"}
      [] task = "panicked" -> {"err", "panic"}

SelectServer ==
    /\ ProcessUp
    /\ server = "finished"
    /\ start_pc' = "returned"
    /\ start_result' = server_arm_result
    /\ UNCHANGED << outside_loop, tls_gauges, driver, every, tls_mode,
                    pc, loop_locals, registry, ghosts, sleep_for,
                    monitor, chan, rx_open, tx_open, server >>

SelectMonitor ==
    /\ ProcessUp
    /\ monitor \in {"returned", "panicked"}
    /\ start_pc' = "returned"
    /\ start_result' \in monitor_arm_results(monitor)
    /\ UNCHANGED << outside_loop, tls_gauges, driver, every, tls_mode,
                    pc, loop_locals, registry, ghosts, sleep_for,
                    monitor, chan, rx_open, tx_open, server >>

\* GET /metrics reads the registry and changes nothing: a scrape is a
\* stuttering step of the model, possible in every state in which the server
\* accepts or drains connections, and metrics_handler is the response it
\* gets there (the series of the two info gauges and the pulse).
CanScrape == ProcessUp /\ server \in {"serving", "draining"}

metrics_handler ==
    [version_info |-> DATABASE_VERSION_INFO,
     host_info |-> DATABASE_HOST_INFO,
     pulse |-> PULSE]

\* ---------------------------------------------------------------- run_loop
\* The spawned task is being polled.
Running == ProcessUp /\ monitor = "running"

\* Variant: the next iteration is started without awaiting the pacing sleep.
CanStartIteration_unawaited == pc \in {"top", "sleep"}

\* The loop is at the head of `loop`: the previous iteration future has been
\* awaited to its end.
CanStartIteration == pc = "top"

\* Head of one iteration up to the match on the driver.
IterStart ==
    /\ Running
    /\ CanStartIteration
    /\ iter < MaxIter
    /\ iter' = iter + 1
    /\ iter_base' = ITERATIONS_TOTAL
    /\ metrics_base' = [errors |-> DB_ERRORS, tls_errors |-> TLS_CONNECTION_ERRORS,
                        last_success |-> LAST_SUCCESS]
    /\ result' = NoResult
    /\ pc' = IF driver \in SupportedDrivers THEN "probe" ELSE "unsupported"
    /\ UNCHANGED << outside_loop, tls_gauges, driver, every, tls_mode,
                    last_version_label, last_host_label, registry,
                    ended, outcome, sleep_for, start_state >>

\* test_rw(...).await returns Ok(result) or Err(e).
ProbeReturns ==
    /\ Running
    /\ pc = "probe"
    /\ \/ \E posture \in PosturesOf(driver), version \in BaseVersions, host \in Hosts :
            /\ result' = test_rw_ok(driver, posture, version, host)
            /\ pc' = "version_remove"
       \/ \E e \in ErrorTexts :
            /\ result' = [kind |-> "err", rw |-> FALSE, error |-> e]
            /\ pc' = "err_pulse"
    /\ UNCHANGED << outside_loop, tls_gauges, driver, every, tls_mode,
                    last_version_label, last_host_label, registry,
                    ghosts, sleep_for, start_state >>

\* Variant: no catch_unwind around the iteration, the panic ends the task.
ProbePanics_uncaught ==
    /\ Running
    /\ pc = "probe"
    /\ monitor' = "panicked"
    /\ tx_open' = FALSE
    /\ pc' = "dead"
    /\ UNCHANGED << outside_loop, tls_gauges, driver, every, tls_mode,
                    loop_locals, registry, ghosts, sleep_for,
                    chan, rx_open, server, start_pc, start_result >>

\* test_rw panics; catch_unwind turns it into Err(panic_info).
ProbePanics ==
    /\ Running
    /\ pc = "probe"
    /\ pc' = "caught"
    /\ UNCHANGED << outside_loop, tls_gauges, driver, every, tls_mode,
                    loop_locals, registry, ghosts, sleep_for,
                    start_state >>

\* Variant: the previous series is never removed.
update_database_version_metric_keep(series, database, version, last_version) ==
    series

\* update_database_version_metric, first half: remove the previous series.
update_database_version_metric_remove(series, database, version, last_version) ==
    IF last_version # None /\ last_version[1] # version
    THEN series \ {<< database, last_version[1] >>}
    ELSE series

\* update_database_version_metric, second half: set the series of this version.
update_database_version_metric_set(series, database, version) ==
    series \cup {<< database, version >>}

VersionRemove ==
    /\ Running
    /\ pc = "version_remove"
    /\ DATABASE_VERSION_INFO' =
          update_database_version_metric_remove(DATABASE_VERSION_INFO,
              metric_db(driver), result.version, last_version_label)
    /\ pc' = "version_set"
    /\ UNCHANGED << outside_loop, tls_gauges, driver, every, tls_mode,
                    loop_locals, PULSE, ITERATIONS_TOTAL,
                    DB_READONLY, PANICS_RECOVERED, DATABASE_HOST_INFO,
                    outcome_metrics, ghosts, sleep_for, start_state >>

VersionSet ==
    /\ Running
    /\ pc = "version_set"
    /\ DATABASE_VERSION_INFO' =
          update_database_version_metric_set(DATABASE_VERSION_INFO,
              metric_db(driver), result.version)
    /\ last_version_label' = Some(result.version)
    /\ pc' = "host_remove"
    /\ UNCHANGED << outside_loop, tls_gauges, driver, every, tls_mode, result, last_host_label, PULSE,
                    ITERATIONS_TOTAL, DB_READONLY, PANICS_RECOVERED,
                    DATABASE_HOST_INFO, outcome_metrics, ghosts, sleep_for,
                    start_state >>

\* Variant: the previous series is removed only when a new host replaces it.
update_database_host_metric_remove_on_change(series, database, host, last_host) ==
    IF last_host # None /\ host # None /\ last_host # host
    THEN series \ {<< database, last_host[1] >>}
    ELSE series

\* update_database_host_metric, first half: remove the previous series.
update_database_host_metric_remove(series, database, host, last_host) ==
    IF last_host # None /\ last_host # host
    THEN series \ {<< database, last_host[1] >>}
    ELSE series

\* update_database_host_metric, second half: set the series of this host.
update_database_host_metric_set(series, database, host) ==
    IF host # None THEN series \cup {<< database, host[1] >>} ELSE series

HostRemove ==
    /\ Running
    /\ pc = "host_remove"
    /\ DATABASE_HOST_INFO' =
          update_database_host_metric_remove(DATABASE_HOST_INFO,
              metric_db(driver), result.db_host, last_host_label)
    /\ pc' = "host_set"
    /\ UNCHANGED << outside_loop, tls_gauges, driver, every, tls_mode,
                    loop_locals, PULSE, ITERATIONS_TOTAL,
                    DB_READONLY, PANICS_RECOVERED, DATABASE_VERSION_INFO,
                    outcome_metrics, ghosts, sleep_for, start_state >>

HostSet ==
    /\ Running
    /\ pc = "host_set"
    /\ DATABASE_HOST_INFO' =
          update_database_host_metric_set(DATABASE_HOST_INFO,
              metric_db(driver), result.db_host)
    /\ last_host_label' = result.db_host
    /\ pc' = "health"
    /\ UNCHANGED << outside_loop, tls_gauges, driver, every, tls_mode, result, last_version_label, PULSE,
                    ITERATIONS_TOTAL, DB_READONLY, PANICS_RECOVERED,
                    DATABASE_VERSION_INFO, outcome_metrics, ghosts, sleep_for,
                    start_state >>

\* Variant: the writable arm leaves database_readonly as it was.
Health_sticky_readonly ==
    /\ Running
    /\ pc = "health"
    /\ IF is_database_read_only(metric_db(driver), result.version)
       THEN /\ DB_READONLY' = Some(1)
            /\ PULSE' = 0
            /\ ITERATIONS_TOTAL' = [ITERATIONS_TOTAL EXCEPT !["error"] = @ + 1]
            /\ DB_ERRORS' = [DB_ERRORS EXCEPT !["query"] = @ + 1]
            /\ UNCHANGED LAST_SUCCESS
       ELSE /\ DB_READONLY' = IF DB_READONLY = None THEN Some(0) ELSE DB_READONLY
            /\ PULSE' = 1
            /\ ITERATIONS_TOTAL' = [ITERATIONS_TOTAL EXCEPT !["success"] = @ + 1]
            /\ LAST_SUCCESS' = Some(timestamp(iter))
            /\ UNCHANGED DB_ERRORS
    /\ pc' = "tls"
    /\ UNCHANGED << outside_loop, tls_gauges, driver, every, tls_mode, loop_locals, PANICS_RECOVERED,
                    DATABASE_VERSION_INFO, DATABASE_HOST_INFO, TLS_CONNECTION_ERRORS,
                    ghosts, sleep_for, start_state >>

\* Variant: the read-only arm records the check as the last success.
Health_readonly_stamps_success ==
    /\ Running
    /\ pc = "health"
    /\ IF is_database_read_only(metric_db(driver), result.version)
       THEN /\ DB_READONLY' = Some(1)
            /\ PULSE' = 0
            /\ ITERATIONS_TOTAL' = [ITERATIONS_TOTAL EXCEPT !["error"] = @ + 1]
            /\ DB_ERRORS' = [DB_ERRORS EXCEPT !["query"] = @ + 1]
            /\ LAST_SUCCESS' = Some(timestamp(iter))
       ELSE /\ DB_READONLY' = Some(0)
            /\ PULSE' = 1
            /\ ITERATIONS_TOTAL' = [ITERATIONS_TOTAL EXCEPT !["success"] = @ + 1]
            /\ LAST_SUCCESS' = Some(timestamp(iter))
            /\ UNCHANGED DB_ERRORS
    /\ pc' = "tls"
    /\ UNCHANGED << outside_loop, tls_gauges, driver, every, tls_mode, loop_locals, PANICS_RECOVERED,
                    DATABASE_VERSION_INFO, DATABASE_HOST_INFO, TLS_CONNECTION_ERRORS,
                    ghosts, sleep_for, start_state >>

\* The read-only decision of the Ok branch and the gauges and counters it sets.
Health ==
    /\ Running
    /\ pc = "health"
    /\ IF is_database_read_only(metric_db(driver), result.version)
       THEN /\ DB_READONLY' = Some(1)
            /\ PULSE' = 0
            /\ ITERATIONS_TOTAL' = [ITERATIONS_TOTAL EXCEPT !["error"] = @ + 1]
            /\ DB_ERRORS' = [DB_ERRORS EXCEPT !["query"] = @ + 1]
            /\ UNCHANGED LAST_SUCCESS
       ELSE /\ DB_READONLY' = Some(0)
            /\ PULSE' = 1
            /\ ITERATIONS_TOTAL' = [ITERATIONS_TOTAL EXCEPT !["success"] = @ + 1]
            /\ LAST_SUCCESS' = Some(timestamp(iter))
            /\ UNCHANGED DB_ERRORS
    /\ pc' = "tls"
    /\ UNCHANGED << outside_loop, tls_gauges, driver, every, tls_mode, loop_locals, PANICS_RECOVERED,
                    DATABASE_VERSION_INFO, DATABASE_HOST_INFO, TLS_CONNECTION_ERRORS,
                    ghosts, sleep_for, start_state >>

\* What result.tls_metadata can hold: None when TLS is disabled or the
\* extraction failed, otherwise the negotiated version and cipher and the
\* days to the expiry of the certificate, each of them optional.
TlsMetadatasOf(mode) ==
    IF is_enabled(mode)
    THEN {None,
          Some([version |-> None, cipher |-> None, cert_expiry_days |-> None]),
          Some([version |-> Some("TLSv1.2"), cipher |-> Some("AES128-GCM"),
                cert_expiry_days |-> Some(30)]),
          Some([version |-> Some("TLSv1.3"), cipher |-> Some("AES256-GCM"),
                cert_expiry_days |-> None])}
    ELSE {None}

\* Variant: the series of the previous version and cipher are removed first.
tls_info_set_replacing(series, database, metadata) ==
    IF metadata.version # None /\ metadata.cipher # None
    THEN {s \in series : s[1] # database}
            \cup {<< database, metadata.version[1], metadata.cipher[1] >>}
    ELSE series

\* TLS_INFO.with_label_values(&[database, version, cipher]).set(1), when the
\* metadata has both a version and a cipher.
tls_info_set(series, database, metadata) ==
    IF metadata.version # None /\ metadata.cipher # None
    THEN series \cup {<< database, metadata.version[1], metadata.cipher[1] >>}
    ELSE series

\* TLS_CERT_EXPIRY_DAYS.with_label_values(&[database]).set(days), when the
\* metadata has the days.
tls_cert_expiry_days_set(gauge, metadata) ==
    IF metadata.cert_expiry_days # None THEN metadata.cert_expiry_days ELSE gauge

\* The end of the Ok branch: `if let Some(ref metadata) = result.tls_metadata`.
\* Nothing before this point reads result.tls_metadata, so it is drawn here.
TlsRecord ==
    /\ Running
    /\ pc = "tls"
    /\ \E tls_metadata \in TlsMetadatasOf(tls_mode) :
          IF tls_metadata # None
          THEN /\ TLS_INFO' = tls_info_set(TLS_INFO, metric_db(driver), tls_metadata[1])
               /\ TLS_CERT_EXPIRY_DAYS' =
                     tls_cert_expiry_days_set(TLS_CERT_EXPIRY_DAYS, tls_metadata[1])
          ELSE UNCHANGED tls_gauges
    /\ pc' = "finish"
    /\ UNCHANGED << outside_loop, driver, every, tls_mode, loop_locals, registry,
                    ghosts, sleep_for, start_state >>

\* Variant: the Err branch also drops the certificate expiry gauge.
ErrPulse_drops_expiry ==
    /\ Running
    /\ pc = "err_pulse"
    /\ PULSE' = 0
    /\ TLS_CERT_EXPIRY_DAYS' = None
    /\ pc' = "err_print"
    /\ UNCHANGED << outside_loop, TLS_INFO, driver, every, tls_mode, loop_locals,
                    ITERATIONS_TOTAL, DB_READONLY, PANICS_RECOVERED,
                    DATABASE_VERSION_INFO, DATABASE_HOST_INFO, outcome_metrics,
                    ghosts, sleep_for, start_state >>

\* Err branch: PULSE.set(0), the first statement.
ErrPulse ==
    /\ Running
    /\ pc = "err_pulse"
    /\ PULSE' = 0
    /\ pc' = "err_print"
    /\ UNCHANGED << outside_loop, tls_gauges, driver, every, tls_mode, loop_locals, ITERATIONS_TOTAL,
                    DB_READONLY, PANICS_RECOVERED, DATABASE_VERSION_INFO,
                    DATABASE_HOST_INFO, outcome_metrics, ghosts, sleep_for,
                    start_state >>

\* Variant: the failure is counted under both statuses.
ErrRecord_counts_both ==
    /\ Running
    /\ pc = "err_print"
    /\ DATABASE_HOST_INFO' =
          update_database_host_metric_set(
              update_database_host_metric_remove(DATABASE_HOST_INFO,
                  metric_db(driver), None, last_host_label),
              metric_db(driver), None)
    /\ last_host_label' = None
    /\ ITERATIONS_TOTAL' = [s \in {"success", "error"} |-> ITERATIONS_TOTAL[s] + 1]
    /\ DB_ERRORS' =
          [DB_ERRORS EXCEPT ![error_type(metric_db(driver), result.error)] = @ + 1]
    /\ TLS_CONNECTION_ERRORS' =
          IF is_enabled(tls_mode) /\ is_tls_error(result.error)
          THEN TLS_CONNECTION_ERRORS + 1
          ELSE TLS_CONNECTION_ERRORS
    /\ pc' = "finish"
    /\ UNCHANGED << outside_loop, tls_gauges, driver, every, tls_mode, result, last_version_label, PULSE,
                    DB_READONLY, PANICS_RECOVERED, DATABASE_VERSION_INFO,
                    LAST_SUCCESS, ghosts, sleep_for, start_state >>

\* Variant: the host series of the last good probe is left in place.
ErrRecord_keeps_host ==
    /\ Running
    /\ pc = "err_print"
    /\ ITERATIONS_TOTAL' = [ITERATIONS_TOTAL EXCEPT !["error"] = @ + 1]
    /\ DB_ERRORS' =
          [DB_ERRORS EXCEPT ![error_type(metric_db(driver), result.error)] = @ + 1]
    /\ TLS_CONNECTION_ERRORS' =
          IF is_enabled(tls_mode) /\ is_tls_error(result.error)
          THEN TLS_CONNECTION_ERRORS + 1
          ELSE TLS_CONNECTION_ERRORS
    /\ pc' = "finish"
    /\ UNCHANGED << outside_loop, tls_gauges, driver, every, tls_mode, loop_locals, PULSE, DB_READONLY,
                    PANICS_RECOVERED, DATABASE_VERSION_INFO, DATABASE_HOST_INFO,
                    LAST_SUCCESS, ghosts, sleep_for, start_state >>

\* Err branch after eprintln!: clear the host series, count the failure,
\* classify the error text and count it by type, count a TLS error.
ErrRecord ==
    /\ Running
    /\ pc = "err_print"
    /\ DATABASE_HOST_INFO' =
          update_database_host_metric_set(
              update_database_host_metric_remove(DATABASE_HOST_INFO,
                  metric_db(driver), None, last_host_label),
              metric_db(driver), None)
    /\ last_host_label' = None
    /\ ITERATIONS_TOTAL' = [ITERATIONS_TOTAL EXCEPT !["error"] = @ + 1]
    /\ DB_ERRORS' =
          [DB_ERRORS EXCEPT ![error_type(metric_db(driver), result.error)] = @ + 1]
    /\ TLS_CONNECTION_ERRORS' =
          IF is_enabled(tls_mode) /\ is_tls_error(result.error)
          THEN TLS_CONNECTION_ERRORS + 1
          ELSE TLS_CONNECTION_ERRORS
    /\ pc' = "finish"
    /\ UNCHANGED << outside_loop, tls_gauges, driver, every, tls_mode, result, last_version_label, PULSE,
                    DB_READONLY, PANICS_RECOVERED, DATABASE_VERSION_INFO,
                    LAST_SUCCESS, ghosts, sleep_for, start_state >>

\* eprintln!("{e}") panics (stderr is gone); catch_unwind catches it.
ErrPrintPanics ==
    /\ Running
    /\ pc = "err_print"
    /\ pc' = "caught"
    /\ UNCHANGED << outside_loop, tls_gauges, driver, every, tls_mode,
                    loop_locals, registry, ghosts, sleep_for,
                    start_state >>

\* How an iteration that ran to its end is classified.
outcome_of(r) ==
    IF r.kind = "err" THEN "error" ELSE IF r.rw THEN "success" ELSE "readonly"

\* Tail of the iteration: runtime, println!, the pacing sleep.
Finish ==
    /\ Running
    /\ pc = "finish"
    /\ \E runtime \in Runtimes :
          LET remaining == remaining_sleep_duration(wait_time_of(every), runtime)
          IN  IF remaining # None
              THEN /\ pc' = "sleep"
                   /\ sleep_for' = remaining
                   /\ ended' = ended
              ELSE /\ pc' = "top"
                   /\ sleep_for' = None
                   /\ ended' = ended + 1
    /\ outcome' = outcome_of(result)
    /\ UNCHANGED << outside_loop, tls_gauges, driver, every, tls_mode,
                    loop_locals, registry, iter, iter_base, metrics_base,
                    metrics_base, start_state >>

\* println!("{serialized}") panics (stdout is gone); catch_unwind catches it.
FinishPanics ==
    /\ Running
    /\ pc = "finish"
    /\ pc' = "caught"
    /\ UNCHANGED << outside_loop, tls_gauges, driver, every, tls_mode,
                    loop_locals, registry, ghosts, sleep_for,
                    start_state >>

\* time::sleep(..).await returns: the iteration (or the recovery) is over.
Wake ==
    /\ Running
    /\ pc \in {"sleep", "panic_sleep"}
    /\ pc' = "top"
    /\ sleep_for' = None
    /\ ended' = ended + 1
    /\ UNCHANGED << outside_loop, tls_gauges, driver, every, tls_mode,
                    loop_locals, registry, iter, iter_base, metrics_base,
                    outcome,
                    start_state >>

\* if let Err(panic_info) = iteration_result { ... }
HandlePanic ==
    /\ Running
    /\ pc = "caught"
    /\ PULSE' = 0
    /\ PANICS_RECOVERED' = PANICS_RECOVERED + 1
    /\ sleep_for' = Some(wait_time_of(every))
    /\ pc' = "panic_sleep"
    /\ outcome' = "panic"
    /\ UNCHANGED << outside_loop, tls_gauges, driver, every, tls_mode,
                    loop_locals, ITERATIONS_TOTAL, DB_READONLY,
                    DATABASE_VERSION_INFO, DATABASE_HOST_INFO, outcome_metrics, iter, ended,
                    iter_base, metrics_base,
                    metrics_base, start_state >>

\* eprintln!("Panic in monitoring loop iteration: ...") itself panics: this
\* panic is outside catch_unwind, the task ends and drops tx.
PanicEscapes ==
    /\ Running
    /\ pc = "caught"
    /\ monitor' = "panicked"
    /\ tx_open' = FALSE
    /\ pc' = "dead"
    /\ UNCHANGED << outside_loop, tls_gauges, driver, every, tls_mode,
                    loop_locals, registry, ghosts, sleep_for,
                    chan, rx_open, server, start_pc, start_result >>

\* The `_ =>` arm: eprintln!, tx.send(()) (an error is discarded), return.
\* The `return` sits inside the async block of the iteration: it ends that
\* future with (), catch_unwind yields Ok(()) and `loop` goes round again.
Unsupported ==
    /\ Running
    /\ pc = "unsupported"
    /\ chan' = IF rx_open THEN chan + 1 ELSE chan
    /\ pc' = "top"
    /\ ended' = ended + 1
    /\ outcome' = "unsupported"
    /\ UNCHANGED << outside_loop, tls_gauges, driver, every, tls_mode,
                    loop_locals, registry, iter, iter_base, metrics_base,
                    sleep_for,
                    monitor, rx_open, tx_open, server, start_pc, start_result >>

\* eprintln!("unsupported driver") panics; catch_unwind catches it.
UnsupportedPrintPanics ==
    /\ Running
    /\ pc = "unsupported"
    /\ pc' = "caught"
    /\ UNCHANGED << outside_loop, tls_gauges, driver, every, tls_mode,
                    loop_locals, registry, ghosts, sleep_for,
                    start_state >>

run_loop ==
    \/ IterStart
    \/ ProbeReturns
    \/ ProbePanics
    \/ VersionRemove
    \/ VersionSet
    \/ HostRemove
    \/ HostSet
    \/ Health
    \/ TlsRecord
    \/ ErrPulse
    \/ ErrRecord
    \/ ErrPrintPanics
    \/ Finish
    \/ FinishPanics
    \/ Wake
    \/ HandlePanic
    \/ PanicEscapes
    \/ Unsupported
    \/ UnsupportedPrintPanics

start ==
    \/ StartBind
    \/ ServerShutdown
    \/ ServerFinish
    \/ SelectServer
    \/ SelectMonitor

Next == run_loop \/ start

Spec == Init /\ [][Next]_vars

\* The loop task makes progress whenever it can (tokio keeps polling a
\* runnable task); nothing is assumed about the server or about start.
FairSpec == Spec /\ WF_vars(run_loop)

\* TimeDelta::num_days(): whole days, the fraction dropped (i64 division)
num_days(seconds) ==
    IF seconds >= 0 THEN seconds \div SecsPerDay ELSE -((-seconds) \div SecsPerDay)

\* calculate_expiry_days, parse_mysql_ssl_expiry: (not_after - Utc::now()).num_days()
calculate_expiry_days(not_after, now) == num_days(not_after - now)

\* ------------------------------------------------- functions on their own
\* Words an error text is made of: the keywords of the classification, two
\* of them with a capital, and one word that is no keyword.
ErrorWords ==
    {"authentication", "password", "Access", "denied", "timeout", "Timeout",
     "connection", "refused", "transaction", "Transaction", "failed"}

\* All word sequences of length 1 .. n over ErrorWords.
RECURSIVE TextsUpTo(_)
TextsUpTo(n) ==
    IF n = 0 THEN {}
    ELSE LET shorter == TextsUpTo(n - 1)
         IN  {<<w>> : w \in ErrorWords} \cup shorter
                \cup {t \o <<w>> : t \in shorter, w \in ErrorWords}

\* ----------------------------------------------- certificate probe errors
\* str::contains, on texts taken character by character
str_contains(text, pattern) ==
    \E i \in 1 .. (Len(text) - Len(pattern) + 1) :
        SubSeq(text, i, i + Len(pattern) - 1) = pattern

\* The error_type label extract_tls_metadata gives a failed probe, the same
\* scan in both drivers: "connect" or "Connection", then "handshake" or "TLS",
\* then "timeout", then "parse" or "certificate".
cert_probe_error_type(message) ==
    IF \/ str_contains(message, <<"c", "o", "n", "n", "e", "c", "t">>)
       \/ str_contains(message, <<"C", "o", "n", "n", "e", "c", "t", "i", "o", "n">>)
    THEN "connection"
    ELSE IF \/ str_contains(message, <<"h", "a", "n", "d", "s", "h", "a", "k", "e">>)
            \/ str_contains(message, <<"T", "L", "S">>)
         THEN "handshake"
         ELSE IF str_contains(message, <<"t", "i", "m", "e", "o", "u", "t">>)
              THEN "timeout"
              ELSE IF \/ str_contains(message, <<"p", "a", "r", "s", "e">>)
                      \/ str_contains(message,
                            <<"c", "e", "r", "t", "i", "f", "i", "c", "a", "t", "e">>)
                   THEN "parse"
                   ELSE "unknown"

\* The failures of probe_certificate_expiry, each with the phase it occurs in
\* and with its text, which is the outermost context of the error:
\* err.to_string() prints no more of an anyhow error.
ProbeFailures ==
    {\* TcpStream::connect failed:
     \* "failed to connect to db1:5432 for TLS certificate probe (protocol: Postgres)"
     [phase |-> "connection",
      message |->
        <<"f", "a", "i", "l", "e", "d", " ", "t", "o", " ", "c", "o", "n", "n", "e", "c",
          "t", " ", "t", "o", " ", "d", "b", "1", ":", "5", "4", "3", "2", " ", "f", "o",
          "r", " ", "T", "L", "S", " ", "c", "e", "r", "t", "i", "f", "i", "c", "a", "t",
          "e", " ", "p", "r", "o", "b", "e", " ", "(", "p", "r", "o", "t", "o", "c", "o",
          "l", ":", " ", "P", "o", "s", "t", "g", "r", "e", "s", ")">>],
     \* write_all of the Postgres SSLRequest failed:
     \* "failed to send PostgreSQL SSLRequest packet"
     [phase |-> "handshake",
      message |->
        <<"f", "a", "i", "l", "e", "d", " ", "t", "o", " ", "s", "e", "n", "d", " ", "P",
          "o", "s", "t", "g", "r", "e", "S", "Q", "L", " ", "S", "S", "L", "R", "e", "q",
          "u", "e", "s", "t", " ", "p", "a", "c", "k", "e", "t">>],
     \* read_exact of the answer failed:
     \* "failed to read PostgreSQL SSLRequest response"
     [phase |-> "handshake",
      message |->
        <<"f", "a", "i", "l", "e", "d", " ", "t", "o", " ", "r", "e", "a", "d", " ", "P",
          "o", "s", "t", "g", "r", "e", "S", "Q", "L", " ", "S", "S", "L", "R", "e", "q",
          "u", "e", "s", "t", " ", "r", "e", "s", "p", "o", "n", "s", "e">>],
     \* the answer was not 'S':
     \* "PostgreSQL server does not accept TLS connections"
     [phase |-> "handshake",
      message |->
        <<"P", "o", "s", "t", "g", "r", "e", "S", "Q", "L", " ", "s", "e", "r", "v", "e",
          "r", " ", "d", "o", "e", "s", " ", "n", "o", "t", " ", "a", "c", "c", "e", "p",
          "t", " ", "T", "L", "S", " ", "c", "o", "n", "n", "e", "c", "t", "i", "o", "n",
          "s">>],
     \* read_exact of the packet header failed:
     \* "failed to read MySQL handshake header"
     [phase |-> "handshake",
      message |->
        <<"f", "a", "i", "l", "e", "d", " ", "t", "o", " ", "r", "e", "a", "d", " ", "M",
          "y", "S", "Q", "L", " ", "h", "a", "n", "d", "s", "h", "a", "k", "e", " ", "h",
          "e", "a", "d", "e", "r">>],
     \* parse_mysql_handshake refused the payload:
     \* "unexpectedly short MySQL handshake"
     [phase |-> "handshake",
      message |->
        <<"u", "n", "e", "x", "p", "e", "c", "t", "e", "d", "l", "y", " ", "s", "h", "o",
          "r", "t", " ", "M", "y", "S", "Q", "L", " ", "h", "a", "n", "d", "s", "h", "a",
          "k", "e">>],
     \* CLIENT_SSL is not advertised:
     \* "MySQL server does not support TLS connections"
     [phase |-> "handshake",
      message |->
        <<"M", "y", "S", "Q", "L", " ", "s", "e", "r", "v", "e", "r", " ", "d", "o", "e",
          "s", " ", "n", "o", "t", " ", "s", "u", "p", "p", "o", "r", "t", " ", "T", "L",
          "S", " ", "c", "o", "n", "n", "e", "c", "t", "i", "o", "n", "s">>],
     \* write_all of the MySQL SSLRequest failed:
     \* "failed to send MySQL SSLRequest"
     [phase |-> "handshake",
      message |->
        <<"f", "a", "i", "l", "e", "d", " ", "t", "o", " ", "s", "e", "n", "d", " ", "M",
          "y", "S", "Q", "L", " ", "S", "S", "L", "R", "e", "q", "u", "e", "s", "t">>],
     \* connector.connect failed:
     \* "failed to complete TLS handshake for certificate probe (Postgres)"
     [phase |-> "handshake",
      message |->
        <<"f", "a", "i", "l", "e", "d", " ", "t", "o", " ", "c", "o", "m", "p", "l", "e",
          "t", "e", " ", "T", "L", "S", " ", "h", "a", "n", "d", "s", "h", "a", "k", "e",
          " ", "f", "o", "r", " ", "c", "e", "r", "t", "i", "f", "i", "c", "a", "t", "e",
          " ", "p", "r", "o", "b", "e", " ", "(", "P", "o", "s", "t", "g", "r", "e", "s",
          ")">>],
     \* extract_expiry_from_tls_stream failed:
     \* "failed to extract certificate metadata from TLS stream"
     [phase |-> "parse",
      message |->
        <<"f", "a", "i", "l", "e", "d", " ", "t", "o", " ", "e", "x", "t", "r", "a", "c",
          "t", " ", "c", "e", "r", "t", "i", "f", "i", "c", "a", "t", "e", " ", "m", "e",
          "t", "a", "d", "a", "t", "a", " ", "f", "r", "o", "m", " ", "T", "L", "S", " ",
          "s", "t", "r", "e", "a", "m">>]}

\* ------------------------------------------------- MySQL TLS metadata
\* What get_cert_metadata_cached can answer with: nothing, or the subject,
\* issuer and days to expiry the probe extracted, each possibly absent.
ProbeMetadatas ==
    {None} \cup
    {Some([cert_subject |-> s, cert_issuer |-> i, cert_expiry_days |-> d]) :
        s \in {None, Some("CN=db")}, i \in {None, Some("CN=ca")},
        d \in {None, Some(30)}}

\* parse_mysql_ssl_expiry of the server's Ssl_server_not_after: no date, or
\* the days from now to it.
StatusExpiries == {None, Some(29), Some(30)}

\* extract_tls_metadata of the MySQL driver: the probe's subject, issuer and
\* expiry are taken first; Ssl_server_not_after is used `if
\* cert_expiry_days.is_none()`.
mysql_tls_metadata(probe_metadata, not_after_days) ==
    LET cert_subject == IF probe_metadata = None THEN None
                        ELSE probe_metadata[1].cert_subject
        cert_issuer == IF probe_metadata = None THEN None
                       ELSE probe_metadata[1].cert_issuer
        probed == IF probe_metadata = None THEN None
                  ELSE probe_metadata[1].cert_expiry_days
    IN  [cert_subject |-> cert_subject,
         cert_issuer |-> cert_issuer,
         cert_expiry_days |-> IF probed = None THEN not_after_days ELSE probed]

\* ------------------------------------------------- MySQL handshake packet
\* const MYSQL_CLIENT_SSL: u32 = 0x0000_0800
MYSQL_CLIENT_SSL == 2048

\* payload.get(from..to), indices from 0, `to` excluded
slice_get(payload, from, to) ==
    IF from <= to /\ to <= Len(payload)
    THEN Some(SubSeq(payload, from + 1, to))
    ELSE None

\* rest.iter().position(|&b| b == 0)
position_of_zero(rest) ==
    IF \E i \in 1 .. Len(rest) : rest[i] = 0
    THEN Some((CHOOSE i \in 1 .. Len(rest) :
                    rest[i] = 0 /\ \A j \in 1 .. (i - 1) : rest[j] # 0) - 1)
    ELSE None

u16_from_be_bytes(bytes) == bytes[1] * 256 + bytes[2]

\* u16::from_le_bytes
u16_from_le_bytes(bytes) == bytes[1] + bytes[2] * 256

HandshakeErr(text) == [kind |-> "err", error |-> text]

\* parse_mysql_handshake: (capabilities, charset) of the server's first packet
parse_mysql_handshake(payload) ==
    IF Len(payload) = 0
    THEN HandshakeErr("empty MySQL handshake payload")
    ELSE
    LET rest == slice_get(payload, 1, Len(payload))
    IN  IF rest = None
        THEN HandshakeErr("invalid MySQL handshake: missing protocol version")
        ELSE
    LET version_end == position_of_zero(rest[1])
    IN  IF version_end = None
        THEN HandshakeErr("invalid MySQL handshake: missing version terminator")
        ELSE
    LET after_version == 1 + version_end[1] + 1
    IN  IF Len(payload) < after_version + 4 + 8 + 1 + 2
        THEN HandshakeErr("unexpectedly short MySQL handshake")
        ELSE
    LET at_lower == after_version + 4 + 8 + 1
        lower_capabilities == slice_get(payload, at_lower, at_lower + 2)
    IN  IF lower_capabilities = None
        THEN HandshakeErr("invalid MySQL handshake: missing lower capabilities")
        ELSE
    LET at_charset == at_lower + 2
        has_charset == at_charset < Len(payload)
        charset == IF has_charset THEN payload[at_charset + 1] ELSE 0
        after_charset == IF has_charset THEN at_charset + 1 ELSE at_charset
        at_upper == IF Len(payload) >= after_charset + 2
                    THEN after_charset + 2 ELSE after_charset
        upper_capabilities == IF Len(payload) >= at_upper + 2
                              THEN slice_get(payload, at_upper, at_upper + 2)
                              ELSE None
        capabilities == u16_from_le_bytes(lower_capabilities[1])
                        + (IF upper_capabilities = None THEN 0
                           ELSE u16_from_le_bytes(upper_capabilities[1]) * 65536)
    IN  [kind |-> "ok", capabilities |-> capabilities, charset |-> charset]

\* `capabilities & MYSQL_CLIENT_SSL == 0`
client_ssl_missing(capabilities) == (capabilities \div MYSQL_CLIENT_SSL) % 2 = 0

\* The first packets tried: a protocol version, a version string of up to
\* MaxVersionLen bytes, its terminator, connection id, auth data and filler,
\* the capability flags with or without CLIENT_SSL in either half, a charset
\* and the status flags.
FullPayloads ==
    {<<10>> \o [i \in 1 .. v |-> 53] \o <<0>> \o <<1, 0, 0, 0>>
        \o <<97, 98, 99, 100, 101, 102, 103, 104>> \o <<0>>
        \o lower \o <<charset>> \o <<2, 0>> \o upper :
        v \in 0 .. MaxVersionLen,
        lower \in {<<0, 0>>, <<0, 8>>, <<8, 0>>},
        charset \in {0, 33},
        upper \in {<<0, 0>>, <<0, 8>>}}

\* Every payload the server can send of them: each cut anywhere, and version
\* strings that never end.
Payloads ==
    UNION {{SubSeq(full, 1, n) : n \in 0 .. Len(full)} : full \in FullPayloads}
    \cup {[i \in 1 .. n |-> 53] : n \in 1 .. (MaxVersionLen + 22)}

\* now.timestamp_micros() for a now before, at and after 1970, up to one
\* modulus away from it on either side.
MicrosTried ==
    {s * m : s \in {-1, 1},
             m \in (0 .. MaxMicros) \cup {I32Max - k : k \in 0 .. MaxMicros}}

\* The calls made on their own: the error classification of either arm on
\* every text, remaining_sleep_duration on every interval and runtime.
Calls ==
    {[fn |-> "error_type", database |-> d, error_str |-> t] :
        d \in {"postgres", "mysql"}, t \in TextsUpTo(MaxWords) \cup ErrorTexts}
    \cup
    {[fn |-> "remaining_sleep_duration", wait_time |-> wait_time_of(e), runtime |-> r] :
        e \in 0 .. MaxEvery, r \in Runtimes}
    \cup
    {[fn |-> "calculate_expiry_days", not_after |-> SecsPerDay,
      now |-> h * (SecsPerDay \div 2)] : h \in 0 .. MaxHalfDays}
    \cup
    {[fn |-> "rollback_test_id", db_driver |-> d, micros |-> m] :
        d \in {"postgres", "mysql"}, m \in MicrosTried}
    \cup
    {[fn |-> "mysql_tls_metadata", probe_metadata |-> m, not_after_days |-> d] :
        m \in ProbeMetadatas, d \in StatusExpiries}
    \cup
    {[fn |-> "parse_mysql_handshake", payload |-> b] : b \in Payloads}
    \cup
    {[fn |-> "cert_probe_error_type", phase |-> f.phase, message |-> f.message] :
        f \in ProbeFailures}

FnInit ==
    /\ LoopInit
    /\ ProbeIdle
    /\ CacheIdle
    /\ call \in {Some(c) : c \in Calls}
    /\ ret = None

Call_error_type ==
    /\ call # None
    /\ call[1].fn = "error_type"
    /\ ret = None
    /\ ret' = Some(error_type(call[1].database, call[1].error_str))
    /\ UNCHANGED << outside_fn, call >>

Call_remaining_sleep_duration ==
    /\ call # None
    /\ call[1].fn = "remaining_sleep_duration"
    /\ ret = None
    /\ ret' = Some(remaining_sleep_duration(call[1].wait_time, call[1].runtime))
    /\ UNCHANGED << outside_fn, call >>

Call_calculate_expiry_days ==
    /\ call # None
    /\ call[1].fn = "calculate_expiry_days"
    /\ ret = None
    /\ ret' = Some(calculate_expiry_days(call[1].not_after, call[1].now))
    /\ UNCHANGED << outside_fn, call >>

Call_rollback_test_id ==
    /\ call # None
    /\ call[1].fn = "rollback_test_id"
    /\ ret = None
    /\ ret' = Some(rollback_test_id(call[1].db_driver, call[1].micros))
    /\ UNCHANGED << outside_fn, call >>

Call_cert_probe_error_type ==
    /\ call # None
    /\ call[1].fn = "cert_probe_error_type"
    /\ ret = None
    /\ ret' = Some(cert_probe_error_type(call[1].message))
    /\ UNCHANGED << outside_fn, call >>

Call_mysql_tls_metadata ==
    /\ call # None
    /\ call[1].fn = "mysql_tls_metadata"
    /\ ret = None
    /\ ret' = Some(mysql_tls_metadata(call[1].probe_metadata, call[1].not_after_days))
    /\ UNCHANGED << outside_fn, call >>

Call_parse_mysql_handshake ==
    /\ call # None
    /\ call[1].fn = "parse_mysql_handshake"
    /\ ret = None
    /\ ret' = Some(parse_mysql_handshake(call[1].payload))
    /\ UNCHANGED << outside_fn, call >>

FnNext ==
    \/ Call_error_type
    \/ Call_remaining_sleep_duration
    \/ Call_calculate_expiry_days
    \/ Call_rollback_test_id
    \/ Call_cert_probe_error_type
    \/ Call_mysql_tls_metadata
    \/ Call_parse_mysql_handshake

FnSpec == FnInit /\ [][FnNext]_vars

ProbeInit ==
    /\ LoopInit
    /\ FnIdle
    /\ CacheIdle
    /\ driver \in SupportedDrivers
    /\ every = 1
    /\ probe \in {[now |-> n, range |-> r, id |-> None, uuid |-> None, row |-> None,
                   updated_value |-> None, rolled_back_value |-> None,
                   exact_count |-> None] :
                    n \in Nows, r \in (0 .. MaxRange) \cup {WideRange}}
    /\ ppc = "connect"
    /\ presult = None
    /\ issued = {}
    /\ db_posture \in PosturesOf(driver)
    /\ tbl \in TablesFound(driver)
    /\ tx = None
    /\ budget = MaxInterference
    /\ run \in RunsFound(driver, 0)
    /\ ~run.db_exists => (~tbl.exists /\ db_posture = "writable")

rid == rollback_test_id(driver, timestamp_micros(probe.now))

\* What a statement can do: work, or fail while failures are left to inject.
Outcomes == IF run.faults > 0 THEN {"ok", "fail"} ELSE {"ok"}

\* The bookkeeping of a statement's outcome.
Note(o, label) ==
    IF o = "fail"
    THEN [run EXCEPT !.faults = @ - 1, !.failed = @ \cup {label}]
    ELSE run

\* `?` on a failed statement: the probe returns the error at once.
Fail(error) ==
    /\ ppc' = "done"
    /\ presult' = Some([kind |-> "err", error |-> error])

\* A statement that touches nothing the model follows: its error is returned
\* with `?` or dropped with .ok() / `if let Ok`.
Statement(at, label, next) ==
    /\ ppc = at
    /\ issued' = issued \cup {label}
    /\ \E o \in Outcomes :
        /\ run' = Note(o, label)
        /\ IF o = "fail" /\ label \in Propagated
           THEN Fail(ErrStatementFailed)
           ELSE /\ ppc' = next
                /\ UNCHANGED presult
    /\ UNCHANGED << outside_probe, probe, db_posture, tbl, tx, budget >>

\* options.connect(): the server can answer that the database does not exist
Connect ==
    /\ ppc = "connect"
    /\ issued' = issued \cup {"CONNECT"}
    /\ \E o \in Outcomes :
        LET answer == IF o = "fail" THEN "error"
                      ELSE IF run.db_exists THEN "ok" ELSE "db_missing"
        IN  /\ run' = [Note(o, "CONNECT") EXCEPT !.attempts = 1, !.first_connect = answer]
            /\ IF answer = "ok"
               THEN ppc' = "statement_timeout" /\ UNCHANGED presult
               ELSE IF database_missing(answer)
                    THEN ppc' = "create_database" /\ UNCHANGED presult
                    ELSE Fail(ErrConnectionRefused)
    /\ UNCHANGED << outside_probe, probe, db_posture, tbl, tx, budget >>

\* connect to the admin database and CREATE DATABASE, both with `?`
CreateDatabase ==
    /\ ppc = "create_database"
    /\ issued' = issued \cup {"CREATE DATABASE"}
    /\ \E o \in Outcomes :
        /\ run' = [Note(o, "CREATE DATABASE") EXCEPT !.db_exists = (o = "ok")]
        /\ IF o = "ok"
           THEN ppc' = "reconnect" /\ UNCHANGED presult
           ELSE Fail(ErrStatementFailed)
    /\ UNCHANGED << outside_probe, probe, db_posture, tbl, tx, budget >>

\* the second options.connect().await?
Reconnect ==
    /\ ppc = "reconnect"
    /\ issued' = issued \cup {"RECONNECT"}
    /\ \E o \in Outcomes :
        /\ run' = [Note(o, "RECONNECT") EXCEPT !.attempts = 2]
        /\ IF o = "ok"
           THEN ppc' = "statement_timeout" /\ UNCHANGED presult
           ELSE Fail(ErrConnectionRefused)
    /\ UNCHANGED << outside_probe, probe, db_posture, tbl, tx, budget >>

\* SET statement_timeout = '5s' (with `?`), or SET SESSION max_execution_time
\* = 5000, which MariaDB does not know and whose failure leads to the fallback
SetStatementTimeout ==
    /\ ppc = "statement_timeout"
    /\ issued' = issued \cup {"SET STATEMENT TIMEOUT"}
    /\ \E o \in Outcomes :
        LET works == o = "ok" /\ run.flavor # "mariadb"
        IN  /\ run' = [Note(o, "SET STATEMENT TIMEOUT") EXCEPT
                        !.session = IF works THEN @ \cup {"statement"} ELSE @,
                        !.failed = IF works THEN @ ELSE @ \cup {"SET STATEMENT TIMEOUT"}]
            /\ IF works
               THEN ppc' = "lock_timeout" /\ UNCHANGED presult
               ELSE IF driver = "mysql"
                    THEN ppc' = "statement_timeout_fallback" /\ UNCHANGED presult
                    ELSE Fail(ErrStatementFailed)
    /\ UNCHANGED << outside_probe, probe, db_posture, tbl, tx, budget >>

\* `let _ =` SET SESSION max_statement_time = 5, which MySQL does not know
SetStatementTimeoutFallback ==
    /\ ppc = "statement_timeout_fallback"
    /\ ppc' = "lock_timeout"
    /\ issued' = issued \cup {"SET STATEMENT TIMEOUT FALLBACK"}
    /\ \E o \in Outcomes :
        LET works == o = "ok" /\ run.flavor = "mariadb"
        IN  run' = [Note(o, "SET STATEMENT TIMEOUT FALLBACK") EXCEPT
                        !.session = IF works THEN @ \cup {"statement"} ELSE @,
                        !.failed = IF works THEN @
                                   ELSE @ \cup {"SET STATEMENT TIMEOUT FALLBACK"}]
    /\ UNCHANGED << outside_probe, probe, presult, db_posture, tbl, tx, budget >>

\* SET lock_timeout = '2s' / SET SESSION innodb_lock_wait_timeout = 2, with `?`
SetLockTimeout ==
    /\ ppc = "lock_timeout"
    /\ issued' = issued \cup {"SET LOCK TIMEOUT"}
    /\ \E o \in Outcomes :
        /\ run' = [Note(o, "SET LOCK TIMEOUT") EXCEPT
                    !.session = IF o = "ok" THEN @ \cup {"lock"} ELSE @]
        /\ IF o = "fail" /\ "SET LOCK TIMEOUT" \in Propagated
           THEN Fail(ErrStatementFailed)
           ELSE ppc' = "version" /\ UNCHANGED presult
    /\ UNCHANGED << outside_probe, probe, db_posture, tbl, tx, budget >>

\* SHOW server_version / SELECT VERSION()
FetchVersion ==
    /\ ppc = "version"
    /\ Statement("version", "VERSION", "host")

\* inet_server_addr() / @@hostname
FetchHost ==
    /\ ppc = "host"
    /\ Statement("host", "HOST", "uptime")

\* pg_postmaster_start_time() / SHOW GLOBAL STATUS LIKE 'Uptime'
FetchUptime ==
    /\ ppc = "uptime"
    /\ Statement("uptime", "UPTIME", "read_only")

\* pg_is_in_recovery() and SHOW transaction_read_only, or SELECT @@read_only:
\* a read-only server is answered with the annotated result, after the
\* replication lag (a replica) and the TLS metadata.
ReadOnlyCheck ==
    /\ ppc = "read_only"
    /\ issued' = issued \cup {"READ ONLY?"}
    /\ \E o \in Outcomes :
        /\ run' = Note(o, "READ ONLY?")
        /\ IF o = "fail"
           THEN Fail(ErrStatementFailed)
           ELSE /\ ppc' = IF detected_read_only(db_posture)
                          THEN IF db_posture = "tx_read_only" THEN "tls"
                               ELSE "replication_lag"
                          ELSE "blocking"
                /\ UNCHANGED presult
    /\ UNCHANGED << outside_probe, probe, db_posture, tbl, tx, budget >>

\* pg_last_xact_replay_timestamp() / SHOW REPLICA STATUS
ReplicationLag ==
    /\ ppc = "replication_lag"
    /\ Statement("replication_lag", "REPLICATION LAG", "tls")

\* the count of blocking queries
BlockingQueries ==
    /\ ppc = "blocking"
    /\ Statement("blocking", "BLOCKING",
                 IF driver = "mysql" THEN "create_table" ELSE "uuid_extension")

\* CREATE EXTENSION IF NOT EXISTS "uuid-ossp": a duplicate reported by a
\* concurrent creation is ignored
UuidExtension ==
    /\ ppc = "uuid_extension"
    /\ issued' = issued \cup {"CREATE EXTENSION"}
    /\ \E o \in Outcomes, duplicate \in BOOLEAN :
        /\ duplicate => o = "fail"
        /\ run' = IF duplicate
                  THEN [run EXCEPT !.faults = @ - 1, !.tolerated = @ \cup {"CREATE EXTENSION"}]
                  ELSE Note(o, "CREATE EXTENSION")
        /\ IF o = "fail" /\ ~duplicate
           THEN Fail(ErrStatementFailed)
           ELSE ppc' = "create_table" /\ UNCHANGED presult
    /\ UNCHANGED << outside_probe, probe, db_posture, tbl, tx, budget >>

\* CREATE TABLE IF NOT EXISTS; Postgres ignores "duplicate key" and "already
\* exists", the answers to a creation that lost a race
CreateTable ==
    /\ ppc = "create_table"
    /\ issued' = issued \cup {"CREATE TABLE"}
    /\ \E o \in Outcomes, duplicate \in BOOLEAN :
        /\ duplicate => (o = "fail" /\ driver # "mysql")
        /\ run' = IF duplicate
                  THEN [run EXCEPT !.faults = @ - 1, !.tolerated = @ \cup {"CREATE TABLE"}]
                  ELSE Note(o, "CREATE TABLE")
        /\ IF o = "fail" /\ ~duplicate
           THEN /\ Fail(ErrStatementFailed)
                /\ UNCHANGED tbl
           ELSE /\ tbl' = IF tbl.exists THEN tbl
                          ELSE [exists |-> TRUE, transactional |-> TRUE, rows |-> NoRows]
                /\ ppc' = "upsert"
                /\ UNCHANGED presult
    /\ UNCHANGED << outside_probe, probe, db_posture, tx, budget >>

\* random_range(0..range) panics on the empty range 0..0.
DrawPanics ==
    /\ ppc = "upsert"
    /\ RandomIds(probe.range) = {}
    /\ ppc' = "panicked"
    /\ UNCHANGED << outside_probe, probe, presult, issued, db_posture, tbl, tx, budget,
                    run >>

\* draw id and uuid, upsert (id, now.timestamp(), uuid)
Upsert ==
    /\ ppc = "upsert"
    /\ issued' = issued \cup {"UPSERT"}
    /\ \E k \in RandomIds(probe.range), u \in OwnUuids, o \in Outcomes :
        /\ probe' = [probe EXCEPT !.id = Some(k), !.uuid = Some(u)]
        /\ run' = Note(o, "UPSERT")
        /\ IF o = "fail"
           THEN /\ Fail(ErrStatementFailed)
                /\ UNCHANGED tbl
           ELSE IF tbl.exists
                THEN /\ tbl' = [tbl EXCEPT !.rows =
                                    upsert(driver, tbl.rows, k, timestamp(probe.now), u)]
                     /\ ppc' = "select"
                     /\ UNCHANGED presult
                ELSE /\ Fail(ErrTableMissing)
                     /\ UNCHANGED tbl
    /\ UNCHANGED << outside_probe, db_posture, tx, budget >>

\* SELECT t1, uuid WHERE id = $1, then the comparison with what was written
SelectAndVerify ==
    /\ ppc = "select"
    /\ issued' = issued \cup {"SELECT"}
    /\ \E o \in Outcomes :
        /\ run' = Note(o, "SELECT")
        /\ IF o = "fail"
           THEN /\ Fail(ErrStatementFailed)
                /\ UNCHANGED probe
           ELSE IF ~tbl.exists
                THEN /\ Fail(ErrTableMissing)
                     /\ UNCHANGED probe
                ELSE LET found == tbl.rows[probe.id[1]]
                     IN  /\ probe' = [probe EXCEPT !.row = found]
                         /\ IF found = None
                            THEN Fail(ErrExpectedRecords)
                            ELSE IF ~records_match(probe.now, probe.uuid[1],
                                                   found[1].t1, found[1].uuid)
                                 THEN Fail(ErrRecordsDontMatch)
                                 ELSE /\ ppc' = "begin"
                                      /\ UNCHANGED presult
    /\ UNCHANGED << outside_probe, db_posture, tbl, tx, budget >>

\* conn.begin(): what a rollback will restore
Begin ==
    /\ ppc = "begin"
    /\ issued' = issued \cup {"BEGIN"}
    /\ \E o \in Outcomes :
        /\ run' = Note(o, "BEGIN")
        /\ IF o = "fail"
           THEN /\ Fail(ErrStatementFailed)
                /\ UNCHANGED tx
           ELSE /\ ppc' = "tx_upsert"
                /\ tx' = Some(IF tbl.exists THEN tbl.rows[rid] ELSE None)
                /\ UNCHANGED presult
    /\ UNCHANGED << outside_probe, probe, db_posture, tbl, budget >>

\* An error return drops the open transaction, which rolls it back.
Undone == IF tbl.exists /\ tbl.transactional
          THEN [tbl EXCEPT !.rows[rid] = tx[1]]
          ELSE tbl

TxUpsert ==
    /\ ppc = "tx_upsert"
    /\ issued' = issued \cup {"TX UPSERT"}
    /\ \E o \in Outcomes :
        /\ run' = Note(o, "TX UPSERT")
        /\ IF o = "ok" /\ tbl.exists
           THEN /\ tbl' = [tbl EXCEPT !.rows = upsert_999(driver, tbl.rows, rid)]
                /\ ppc' = "tx_update"
                /\ UNCHANGED << presult, tx >>
           ELSE /\ Fail(IF o = "ok" THEN ErrTableMissing ELSE ErrStatementFailed)
                /\ tx' = None
                /\ tbl' = Undone
    /\ UNCHANGED << outside_probe, probe, db_posture, budget >>

TxUpdate ==
    /\ ppc = "tx_update"
    /\ issued' = issued \cup {"TX UPDATE"}
    /\ \E o \in Outcomes :
        /\ run' = Note(o, "TX UPDATE")
        /\ IF o = "ok" /\ tbl.exists
           THEN /\ tbl' = [tbl EXCEPT !.rows = update_0(driver, tbl.rows, rid)]
                /\ ppc' = "tx_select"
                /\ UNCHANGED << presult, tx >>
           ELSE /\ Fail(IF o = "ok" THEN ErrTableMissing ELSE ErrStatementFailed)
                /\ tx' = None
                /\ tbl' = Undone
    /\ UNCHANGED << outside_probe, probe, db_posture, budget >>

\* SELECT t1 inside the transaction, `updated_value != Some(0)`
TxSelect ==
    /\ ppc = "tx_select"
    /\ issued' = issued \cup {"TX SELECT"}
    /\ \E o \in Outcomes :
        /\ run' = Note(o, "TX SELECT")
        /\ IF o = "fail" \/ ~tbl.exists
           THEN /\ Fail(IF o = "ok" THEN ErrTableMissing ELSE ErrStatementFailed)
                /\ tx' = None
                /\ tbl' = Undone
                /\ UNCHANGED probe
           ELSE LET seen == select_t1(tbl.rows, rid)
                IN  /\ probe' = [probe EXCEPT !.updated_value = Some(seen)]
                    /\ IF seen # Some(0)
                       THEN /\ Fail(ErrTransactionUpdateFailed)
                            /\ tbl' = Undone
                            /\ tx' = None
                       ELSE /\ ppc' = "rollback"
                            /\ UNCHANGED << presult, tbl, tx >>
    /\ UNCHANGED << outside_probe, db_posture, budget >>

\* tx.rollback(): an engine without transactions keeps the writes; when the
\* call fails the transaction is dropped and the server rolls back
Rollback ==
    /\ ppc = "rollback"
    /\ issued' = issued \cup {"ROLLBACK"}
    /\ tbl' = Undone
    /\ tx' = None
    /\ \E o \in Outcomes :
        /\ run' = Note(o, "ROLLBACK")
        /\ IF o = "fail"
           THEN Fail(ErrStatementFailed)
           ELSE ppc' = "select_after" /\ UNCHANGED presult
    /\ UNCHANGED << outside_probe, probe, db_posture, budget >>

\* SELECT t1 after the rollback, `rolled_back_value == Some(0)`
SelectAfterRollback ==
    /\ ppc = "select_after"
    /\ issued' = issued \cup {"SELECT AFTER ROLLBACK"}
    /\ \E o \in Outcomes :
        /\ run' = Note(o, "SELECT AFTER ROLLBACK")
        /\ IF o = "fail" \/ ~tbl.exists
           THEN /\ Fail(IF o = "ok" THEN ErrTableMissing ELSE ErrStatementFailed)
                /\ UNCHANGED probe
           ELSE LET seen == select_t1(tbl.rows, rid)
                IN  /\ probe' = [probe EXCEPT !.rolled_back_value = Some(seen)]
                    /\ IF rollback_visible(seen)
                       THEN Fail(ErrTransactionRollbackFailed)
                       ELSE /\ ppc' = "cleanup"
                            /\ UNCHANGED presult
    /\ UNCHANGED << outside_probe, db_posture, tbl, tx, budget >>

\* cleanup DELETE of rows older than one hour; its failure is ignored
Cleanup ==
    /\ ppc = "cleanup"
    /\ ppc' = "row_count"
    /\ issued' = issued \cup {"DELETE"}
    /\ \E o \in Outcomes :
        /\ run' = Note(o, "DELETE")
        /\ tbl' = IF o = "ok" /\ tbl.exists
                  THEN [tbl EXCEPT !.rows = delete_old(tbl.rows)] ELSE tbl
    /\ UNCHANGED << outside_probe, probe, presult, db_posture, tx, budget >>

\* the row count of the catalog for table_rows
RowCount ==
    /\ ppc = "row_count"
    /\ Statement("row_count", "ROW COUNT", "hourly_drop")

should_drop_any_minute(now, id) == id < 5

\* `now.minute() == 0 && id < 5`
should_drop(now, id) == minute(now) = 0 /\ id < 5

\* `exact_count < 100_000`
small_enough(exact_count) == exact_count < 100000

\* The hourly drop: at minute 0 and with an id below 5, COUNT(*), which also
\* counts the rows at ids the model does not follow, and for a small table
\* DROP TABLE IF EXISTS; a failure of either statement is ignored.
HourlyDrop ==
    /\ ppc = "hourly_drop"
    /\ ppc' = "sizes"
    /\ IF should_drop(probe.now, probe.id[1])
       THEN \E o \in Outcomes, more \in MoreRows :
            LET counted == o = "ok" /\ tbl.exists
                exact_count == count_rows(tbl.rows) + more
                after == Note(o, "COUNT")
            IN  /\ probe' = [probe EXCEPT !.exact_count =
                                IF counted THEN Some(exact_count) ELSE None]
                /\ IF counted /\ small_enough(exact_count)
                   THEN /\ issued' = issued \cup {"COUNT", "DROP TABLE"}
                        /\ \E dropped \in IF after.faults > 0 THEN BOOLEAN ELSE {TRUE} :
                            /\ run' = IF dropped THEN after
                                      ELSE [after EXCEPT !.faults = @ - 1,
                                                         !.failed = @ \cup {"DROP TABLE"}]
                            /\ tbl' = IF dropped
                                      THEN [tbl EXCEPT !.exists = FALSE, !.rows = NoRows]
                                      ELSE tbl
                   ELSE /\ issued' = issued \cup {"COUNT"}
                        /\ run' = after
                        /\ UNCHANGED tbl
       ELSE UNCHANGED << issued, tbl, run, probe >>
    /\ UNCHANGED << outside_probe, presult, db_posture, tx, budget >>

\* the size of the table and of the database
Sizes ==
    /\ ppc = "sizes"
    /\ Statement("sizes", "SIZES", "tls")

\* the TLS metadata, .ok(); then close and Ok(result), annotated when the
\* server was found read-only
ExtractTls ==
    /\ ppc = "tls"
    /\ ppc' = "done"
    /\ issued' = issued \cup {"TLS"}
    /\ \E o \in Outcomes : run' = Note(o, "TLS")
    /\ presult' = Some([kind |-> "ok", rw |-> ~detected_read_only(db_posture)])
    /\ UNCHANGED << outside_probe, probe, db_posture, tbl, tx, budget >>

\* Another instance between two statements of this one: its upsert at a random
\* id, its cleanup DELETE, its hourly DROP TABLE (which waits for an open
\* transaction on the table), its CREATE TABLE IF NOT EXISTS.
Interfering ==
    /\ ppc \in ReadWritePositions
    /\ db_posture = "writable"
    /\ budget > 0

OtherUpsert ==
    /\ Interfering
    /\ tbl.exists
    /\ \E k \in RandomIds(MaxRange), n \in Nows :
        tbl' = [tbl EXCEPT !.rows = upsert(driver, tbl.rows, k, timestamp(n), "u3")]
    /\ budget' = budget - 1
    /\ UNCHANGED << outside_probe, probe, ppc, presult, issued, db_posture, tx, run >>

OtherCleanup ==
    /\ Interfering
    /\ tbl.exists
    /\ tbl' = [tbl EXCEPT !.rows = delete_old(tbl.rows)]
    /\ budget' = budget - 1
    /\ UNCHANGED << outside_probe, probe, ppc, presult, issued, db_posture, tx, run >>

OtherDrop ==
    /\ Interfering
    /\ tbl.exists
    /\ tx = None \/ ~tbl.transactional
    /\ tbl' = [tbl EXCEPT !.exists = FALSE, !.rows = NoRows]
    /\ budget' = budget - 1
    /\ UNCHANGED << outside_probe, probe, ppc, presult, issued, db_posture, tx, run >>

OtherCreate ==
    /\ Interfering
    /\ ~tbl.exists
    /\ tbl' = [exists |-> TRUE, transactional |-> TRUE, rows |-> NoRows]
    /\ budget' = budget - 1
    /\ UNCHANGED << outside_probe, probe, ppc, presult, issued, db_posture, tx, run >>

ProbeNext ==
    \/ Connect
    \/ CreateDatabase
    \/ Reconnect
    \/ SetStatementTimeout
    \/ SetStatementTimeoutFallback
    \/ SetLockTimeout
    \/ FetchVersion
    \/ FetchHost
    \/ FetchUptime
    \/ ReadOnlyCheck
    \/ ReplicationLag
    \/ BlockingQueries
    \/ UuidExtension
    \/ CreateTable
    \/ DrawPanics
    \/ Upsert
    \/ SelectAndVerify
    \/ Begin
    \/ TxUpsert
    \/ TxUpdate
    \/ TxSelect
    \/ Rollback
    \/ SelectAfterRollback
    \/ Cleanup
    \/ RowCount
    \/ HourlyDrop
    \/ Sizes
    \/ ExtractTls
    \/ OtherUpsert
    \/ OtherCleanup
    \/ OtherDrop
    \/ OtherCreate

ProbeSpec == ProbeInit /\ [][ProbeNext]_vars

\* The same iteration alone on the database, where up to MaxFaults of its
\* statements fail.
FaultInit ==
    /\ LoopInit
    /\ FnIdle
    /\ CacheIdle
    /\ driver \in SupportedDrivers
    /\ every = 1
    /\ probe \in {[now |-> n, range |-> MaxRange, id |-> None, uuid |-> None,
                   row |-> None, updated_value |-> None, rolled_back_value |-> None,
                   exact_count |-> None] :
                    n \in Nows}
    /\ ppc = "connect"
    /\ presult = None
    /\ issued = {}
    /\ db_posture \in PosturesOf(driver)
    /\ tbl \in TablesFound(driver)
    /\ tx = None
    /\ budget = 0
    /\ run \in RunsFound(driver, MaxFaults)
    /\ ~run.db_exists => (~tbl.exists /\ db_posture = "writable")

FaultNext ==
    \/ Connect
    \/ CreateDatabase
    \/ Reconnect
    \/ SetStatementTimeout
    \/ SetStatementTimeoutFallback
    \/ SetLockTimeout
    \/ FetchVersion
    \/ FetchHost
    \/ FetchUptime
    \/ ReadOnlyCheck
    \/ ReplicationLag
    \/ BlockingQueries
    \/ UuidExtension
    \/ CreateTable
    \/ Upsert
    \/ SelectAndVerify
    \/ Begin
    \/ TxUpsert
    \/ TxUpdate
    \/ TxSelect
    \/ Rollback
    \/ SelectAfterRollback
    \/ Cleanup
    \/ RowCount
    \/ HourlyDrop
    \/ Sizes
    \/ ExtractTls

FaultSpec == FaultInit /\ [][FaultNext]_vars

\* CertCache::new(ttl)
CacheInit ==
    /\ LoopInit
    /\ FnIdle
    /\ ProbeIdle
    /\ every = 1
    /\ cache = NoEntries
    /\ ttl \in 0 .. MaxTtl
    /\ clock = 0
    /\ got = None
    /\ last_set = NoEntries
    /\ CallersIdle

CacheSet ==
    /\ \E k \in CacheKeys, m \in Metadatas :
        /\ cache' = set(cache, k, m)
        /\ last_set' = [last_set EXCEPT ![k] = Some([metadata |-> m, at |-> clock])]
    /\ got' = None
    /\ UNCHANGED << outside_cache, ttl, clock >>

CacheGet ==
    /\ \E k \in CacheKeys :
        got' = Some([key |-> k, value |-> get(cache, k)])
    /\ UNCHANGED << outside_cache, cache, ttl, clock, last_set >>

CacheCleanup ==
    /\ cache' = cleanup(cache)
    /\ got' = None
    /\ UNCHANGED << outside_cache, ttl, clock, last_set >>

\* Time passes.
Tick ==
    /\ clock < MaxClock
    /\ clock' = clock + 1
    /\ got' = None
    /\ UNCHANGED << outside_cache, cache, ttl, last_set >>

CacheNext == CacheSet \/ CacheGet \/ CacheCleanup \/ Tick

CacheSpec == CacheInit /\ [][CacheNext]_vars

\* ------------------------------------------------ get_cert_metadata_cached
\* format!("{}:{}", host, default_port): one key for the life of the process
cache_key(db_driver) == IF db_driver = "mysql" THEN "db2:3306" ELSE "db1:5432"

\* A lookup that probes whatever the cache answered.
probe_always(cached) == TRUE

\* `if let Some(cached) = cache.get(..) { return Ok(Some(cached)) }` did not return
probe_needed(cached) == cached = None

\* What probe_certificate_expiry can return.
ProbeOutcomes ==
    {[kind |-> "ok", metadata |-> Some(m)] : m \in Metadatas}
        \cup {[kind |-> "ok", metadata |-> None], [kind |-> "err"]}

LookupInit ==
    /\ LoopInit
    /\ FnIdle
    /\ ProbeIdle
    /\ every = 1
    /\ driver \in {"postgres", "mysql"}
    /\ is_enabled(tls_mode)
    /\ cache = NoEntries
    /\ ttl \in 0 .. MaxTtl
    /\ clock = 0
    /\ got = None
    /\ last_set = NoEntries
    /\ CallersIdle

\* cache.get(&cache_key): a hit is returned at once
LookupGet ==
    /\ lookup.pc = "idle"
    /\ LET key == cache_key(driver)
           cached == get(cache, key)
       IN  lookup' = IF probe_needed(cached)
                     THEN [pc |-> "probe", key |-> key, probed |-> FALSE]
                     ELSE [pc |-> "done", key |-> key, probed |-> FALSE,
                           ret |-> [kind |-> "ok", metadata |-> cached]]
    /\ got' = None
    /\ UNCHANGED << loop_vars, fn_vars, probe_vars, cache, ttl, clock, last_set,
                    TLS_CERT_PROBE_ERRORS, setters >>

\* probe_certificate_expiry(..).await?: an error and Ok(None) are returned as
\* they are.
LookupProbe ==
    /\ lookup.pc = "probe"
    /\ \E o \in ProbeOutcomes :
        /\ o.kind = "err" => TLS_CERT_PROBE_ERRORS < MaxProbeErrors
        /\ lookup' = IF o.kind = "ok" /\ o.metadata # None
                      THEN [pc |-> "store", key |-> lookup.key, probed |-> TRUE, ret |-> o]
                      ELSE [pc |-> "done", key |-> lookup.key, probed |-> TRUE, ret |-> o]
    /\ got' = None
    /\ UNCHANGED << loop_vars, fn_vars, probe_vars, cache, ttl, clock, last_set,
                    TLS_CERT_PROBE_ERRORS, setters >>

\* cache.set(cache_key, metadata.clone())
LookupStore ==
    /\ lookup.pc = "store"
    /\ cache' = set(cache, lookup.key, lookup.ret.metadata[1])
    /\ last_set' = [last_set EXCEPT ![lookup.key] =
                        Some([metadata |-> lookup.ret.metadata[1], at |-> clock])]
    /\ lookup' = [lookup EXCEPT !.pc = "done"]
    /\ got' = None
    /\ UNCHANGED << loop_vars, fn_vars, probe_vars, ttl, clock,
                    TLS_CERT_PROBE_ERRORS, setters >>

\* extract_tls_metadata matching on what the lookup returned: an Err is
\* counted in tls_cert_probe_errors_total.
LookupReturn ==
    /\ lookup.pc = "done"
    /\ TLS_CERT_PROBE_ERRORS' =
            IF lookup.ret.kind = "err" THEN TLS_CERT_PROBE_ERRORS + 1
            ELSE TLS_CERT_PROBE_ERRORS
    /\ lookup' = NoLookup
    /\ got' = None
    /\ UNCHANGED << loop_vars, fn_vars, probe_vars, cache, ttl, clock, last_set,
                    setters >>

LookupNext == LookupGet \/ LookupProbe \/ LookupStore \/ LookupReturn \/ Tick

LookupSpec == LookupInit /\ [][LookupNext]_vars

\* ---------------------------------------------- probe_certificate_expiry
\* const POSTGRES_SSL_REQUEST_CODE: i32 = 80_877_103
POSTGRES_SSL_REQUEST_CODE == 80877103

\* const POSTGRES_SSL_REQUEST_LEN: i32 = 8
POSTGRES_SSL_REQUEST_LEN == 8

\* i32::to_be_bytes of a non-negative value
to_be_bytes(n) ==
    <<n \div 16777216, (n \div 65536) % 256, (n \div 256) % 256, n % 256>>

\* What a Postgres server can answer the SSLRequest with: 'S', 'N', the 'E'
\* of an error message, or nothing before it closes the connection.
SslResponses == {<<83>>, <<78>>, <<69>>, << >>}

ssl_refused_never(response) == FALSE

\* `response[0] != b'S'`
ssl_refused(response) == response[1] # 83

\* Everything but the certificate probe of the cached lookup.
outside_lookup ==
    << loop_vars, fn_vars, probe_vars, cache, ttl, clock, got, last_set,
       TLS_CERT_PROBE_ERRORS, setters >>

\* The probe against a server of either protocol: its answer to the
\* SSLRequest or its first packet, and up to MaxProbeFaults reads, writes or
\* later steps that fail.
CertProbeInit ==
    /\ LoopInit
    /\ FnIdle
    /\ ProbeIdle
    /\ every = 1
    /\ cache = NoEntries
    /\ ttl = 0
    /\ clock = 0
    /\ got = None
    /\ last_set = NoEntries
    /\ TLS_CERT_PROBE_ERRORS = 0
    /\ setters = [t \in Tasks |-> None]
    /\ \E protocol \in {"Postgres", "Mysql"}, faults \in 0 .. MaxProbeFaults :
        \E response \in IF protocol = "Postgres" THEN SslResponses ELSE {<< >>},
           payload \in IF protocol = "Mysql" THEN Payloads ELSE {<< >>} :
            lookup = [pc |-> "tcp_connect", protocol |-> protocol,
                      response |-> response, payload |-> payload, faults |-> faults,
                      sent |-> << >>, capabilities |-> None, handshakes |-> 0,
                      ret |-> None]

\* An I/O step works, or fails while failures are left.
IoOutcomes == IF lookup.faults > 0 THEN {"ok", "fail"} ELSE {"ok"}

\* `?`: probe_certificate_expiry returns the error
ProbeErr(o, text) ==
    [lookup EXCEPT !.pc = "done", !.ret = Some([kind |-> "err", error |-> text]),
                   !.faults = IF o = "fail" THEN @ - 1 ELSE @]

\* TcpStream::connect((host, port))
TcpConnect ==
    /\ lookup.pc = "tcp_connect"
    /\ \E o \in IoOutcomes :
        lookup' = IF o = "fail"
                  THEN ProbeErr(o, "failed to connect")
                  ELSE [lookup EXCEPT !.pc = IF lookup.protocol = "Postgres"
                                             THEN "ssl_request" ELSE "mysql_handshake"]
    /\ UNCHANGED outside_lookup

\* send_postgres_ssl_request: write the 8 bytes
SendSslRequest ==
    /\ lookup.pc = "ssl_request"
    /\ \E o \in IoOutcomes :
        lookup' = IF o = "fail"
                  THEN ProbeErr(o, "failed to send PostgreSQL SSLRequest packet")
                  ELSE [lookup EXCEPT !.pc = "ssl_response",
                            !.sent = to_be_bytes(POSTGRES_SSL_REQUEST_LEN)
                                        \o to_be_bytes(POSTGRES_SSL_REQUEST_CODE)]
    /\ UNCHANGED outside_lookup

\* send_postgres_ssl_request: read_exact of one byte, which must be 'S'
ReadSslResponse ==
    /\ lookup.pc = "ssl_response"
    /\ \E o \in IoOutcomes :
        lookup' = IF o = "fail" \/ lookup.response = << >>
                  THEN ProbeErr(o, "failed to read PostgreSQL SSLRequest response")
                  ELSE IF ssl_refused(lookup.response)
                       THEN ProbeErr(o, "PostgreSQL server does not accept TLS connections")
                       ELSE [lookup EXCEPT !.pc = "connector"]
    /\ UNCHANGED outside_lookup

\* perform_mysql_starttls: read the header and the payload it announces,
\* parse it, and refuse a server without CLIENT_SSL
ReadMysqlHandshake ==
    /\ lookup.pc = "mysql_handshake"
    /\ \E o \in IoOutcomes :
        lookup' =
            IF o = "fail"
            THEN ProbeErr(o, "failed to read MySQL handshake payload")
            ELSE LET parsed == parse_mysql_handshake(lookup.payload)
                 IN  IF parsed.kind = "err"
                     THEN ProbeErr(o, parsed.error)
                     ELSE IF client_ssl_missing(parsed.capabilities)
                          THEN ProbeErr(o, "MySQL server does not support TLS connections")
                          ELSE [lookup EXCEPT !.pc = "mysql_ssl_request",
                                              !.capabilities = Some(parsed.capabilities)]
    /\ UNCHANGED outside_lookup

\* perform_mysql_starttls: write the SSLRequest packet
SendMysqlSslRequest ==
    /\ lookup.pc = "mysql_ssl_request"
    /\ \E o \in IoOutcomes :
        lookup' = IF o = "fail"
                  THEN ProbeErr(o, "failed to send MySQL SSLRequest")
                  ELSE [lookup EXCEPT !.pc = "connector", !.sent = <<"SSLRequest">>]
    /\ UNCHANGED outside_lookup

\* build_tls_connector and server_name_from_host
BuildConnector ==
    /\ lookup.pc = "connector"
    /\ \E o \in IoOutcomes :
        lookup' = IF o = "fail"
                  THEN ProbeErr(o, "failed to build TLS connector for certificate probe")
                  ELSE [lookup EXCEPT !.pc = "tls_handshake"]
    /\ UNCHANGED outside_lookup

\* connector.connect(server_name, stream): the TLS handshake
TlsHandshake ==
    /\ lookup.pc = "tls_handshake"
    /\ \E o \in IoOutcomes :
        lookup' = IF o = "fail"
                  THEN [ProbeErr(o, "failed to complete TLS handshake")
                            EXCEPT !.handshakes = @ + 1]
                  ELSE [lookup EXCEPT !.pc = "extract", !.handshakes = @ + 1]
    /\ UNCHANGED outside_lookup

\* extract_expiry_from_tls_stream
ExtractExpiry ==
    /\ lookup.pc = "extract"
    /\ \E o \in IoOutcomes, m \in Metadatas :
        lookup' = IF o = "fail"
                  THEN ProbeErr(o, "failed to extract certificate metadata from TLS stream")
                  ELSE [lookup EXCEPT !.pc = "done",
                                      !.ret = Some([kind |-> "ok", metadata |-> Some(m)])]
    /\ UNCHANGED outside_lookup

CertProbeNext ==
    \/ TcpConnect
    \/ SendSslRequest
    \/ ReadSslResponse
    \/ ReadMysqlHandshake
    \/ SendMysqlSslRequest
    \/ BuildConnector
    \/ TlsHandshake
    \/ ExtractExpiry

CertProbeSpec == CertProbeInit /\ [][CertProbeNext]_vars

\* --------------------------------------------- tasks sharing the cache
\* Each task calls set and then waits for the write lock; the insert, with
\* its Instant::now(), happens under the lock.
TaskInit ==
    /\ LoopInit
    /\ FnIdle
    /\ ProbeIdle
    /\ every = 1
    /\ driver \in {"postgres", "mysql"}
    /\ is_enabled(tls_mode)
    /\ cache = NoEntries
    /\ ttl \in 0 .. MaxTtl
    /\ clock = 0
    /\ got = None
    /\ last_set = NoEntries
    /\ CallersIdle

\* cache.set(key, metadata) is called: self.data.write().await is pending
SetCall ==
    /\ \E t \in Tasks, k \in CacheKeys, m \in Metadatas :
        /\ setters[t] = None
        /\ setters' = [setters EXCEPT ![t] = Some([key |-> k, metadata |-> m])]
    /\ got' = None
    /\ UNCHANGED << loop_vars, fn_vars, probe_vars, cache, ttl, clock, last_set,
                    lookup, TLS_CERT_PROBE_ERRORS >>

\* the write lock is granted: cache.insert(key, (metadata, Instant::now()))
SetInsert ==
    /\ \E t \in Tasks :
        /\ setters[t] # None
        /\ cache' = set(cache, setters[t][1].key, setters[t][1].metadata)
        /\ last_set' = [last_set EXCEPT ![setters[t][1].key] =
                            Some([metadata |-> setters[t][1].metadata, at |-> clock])]
        /\ setters' = [setters EXCEPT ![t] = None]
    /\ got' = None
    /\ UNCHANGED << loop_vars, fn_vars, probe_vars, ttl, clock, lookup,
                    TLS_CERT_PROBE_ERRORS >>

TaskNext == SetCall \/ SetInsert \/ CacheGet \/ CacheCleanup \/ Tick

TaskSpec == TaskInit /\ [][TaskNext]_vars

\* ================================================================== claims
\* No iteration is in the middle of updating metrics.
AtBoundary == pc \in {"top", "probe", "unsupported", "sleep", "panic_sleep"}

\* The last started iteration has run to its end (its sleep may be pending).
IterationDone == iter > 0 /\ pc \in {"top", "sleep", "panic_sleep"}

\* What the last iteration added to iterations_total{status}.
Delta(status) == ITERATIONS_TOTAL[status] - iter_base[status]

\* C1: whenever no iteration is updating metrics, dbpulse_pulse is 1 exactly
\* when the last completed iteration ran the whole read/write/transaction
\* cycle on a writable database, and 0 after an error, a read-only or
\* recovering database, or a panic.
C1_PulseIffLastIterationHealthy ==
    AtBoundary => (PULSE = 1 <=> outcome = "success")

C1_Witness ==
    /\ pc = "sleep"
    /\ outcome = "success"
    /\ PULSE = 1
    /\ ITERATIONS_TOTAL["error"] >= 1

\* C2 as stated: every iteration, whatever its outcome, increments exactly
\* one of iterations_total{success} and iterations_total{error}, by 1.
C2_EveryIterationCountedOnce ==
    IterationDone => Delta("success") + Delta("error") = 1

\* C2 amended: an iteration that runs to its end without panicking on a
\* supported driver increments exactly one of the two counters by exactly 1
\* (error unless the full cycle ran); an iteration that panicked incremented
\* at most one of them; a pass with an unsupported driver increments neither.
C2_ReturnedIterationCountedOnce ==
    IterationDone =>
        /\ Delta("success") \in {0, 1}
        /\ Delta("error") \in {0, 1}
        /\ outcome = "success" => Delta("success") = 1 /\ Delta("error") = 0
        /\ outcome \in {"readonly", "error"} => Delta("success") = 0 /\ Delta("error") = 1
        /\ outcome = "panic" => Delta("success") + Delta("error") <= 1
        /\ outcome = "unsupported" => Delta("success") + Delta("error") = 0

C2_Witness ==
    /\ pc = "sleep"
    /\ outcome = "error"
    /\ Delta("error") = 1
    /\ ITERATIONS_TOTAL["success"] >= 1

\* The loop can go on: the task lives, the process is up, the model's budget
\* of iterations is not used up, and the driver is one the loop probes.
CanGoOn ==
    /\ driver \in SupportedDrivers
    /\ monitor = "running"
    /\ ProcessUp
    /\ iter < MaxIter

C4_OneIterationInFlight ==
    /\ ended <= iter
    /\ iter - ended <= 1
    /\ pc \in {"sleep", "panic_sleep"} => iter = ended + 1

C4_Witness ==
    /\ pc = "probe"
    /\ iter = 2
    /\ ended = 1

\* C5: at every point a scrape can observe there is at most one
\* database_version_info series, and right after an update there is exactly
\* the series of the version of that update.
C5_OneVersionSeries ==
    /\ Cardinality(DATABASE_VERSION_INFO) <= 1
    /\ CanScrape => Cardinality(metrics_handler.version_info) <= 1
    /\ pc = "host_remove" =>
          DATABASE_VERSION_INFO = {<< metric_db(driver), result.version >>}

\* Between the remove and the set of an update that changes the version.
C5_Witness ==
    /\ pc = "version_set"
    /\ CanScrape
    /\ last_version_label # None
    /\ last_version_label[1] # result.version
    /\ DATABASE_VERSION_INFO = {}

\* C6: at every point a scrape can observe there is at most one
\* database_host_info series; right after an update with host h there is
\* exactly the series of h, and right after an update with no host (a result
\* without host, or a failed probe) there is none.
C6_OneHostSeries ==
    /\ Cardinality(DATABASE_HOST_INFO) <= 1
    /\ CanScrape => Cardinality(metrics_handler.host_info) <= 1
    /\ pc = "health" =>
          DATABASE_HOST_INFO =
             IF result.db_host = None THEN {}
             ELSE {<< metric_db(driver), result.db_host[1] >>}
    /\ (pc = "finish" /\ result.kind = "err") => DATABASE_HOST_INFO = {}

\* Between the remove and the set of an update that changes the host, a
\* scrape being possible.
C6_Witness ==
    /\ pc = "host_set"
    /\ CanScrape
    /\ last_host_label # None
    /\ result.db_host # None
    /\ last_host_label # result.db_host
    /\ metrics_handler.host_info = {}

\* C7: whatever happened before, an iteration that completes the full cycle
\* on a writable database leaves pulse = 1 and database_readonly = 0, and a
\* failed, read-only or panicking iteration is always followed by another
\* iteration: the loop is never stuck.
C7_RecoversAfterFailures ==
    /\ []((pc \in {"sleep", "top"} /\ outcome = "success") =>
             (PULSE = 1 /\ DB_READONLY = Some(0)))
    /\ (IterationDone /\ outcome \in {"error", "readonly", "panic"} /\ CanGoOn)
          ~> (pc = "probe")

\* The first success after a recovered panic and a read-only iteration.
C7_Witness ==
    /\ pc = "sleep"
    /\ outcome = "success"
    /\ PANICS_RECOVERED >= 1
    /\ ITERATIONS_TOTAL["error"] >= 1
    /\ ITERATIONS_TOTAL["success"] = 1
    /\ PULSE = 1
    /\ DB_READONLY = Some(0)

\* C8 as stated: with an unsupported driver run_loop sends on the shutdown
\* channel and returns; no further iteration is started.
C8_UnsupportedDriverEndsLoop ==
    outcome = "unsupported" => (monitor = "returned" /\ iter = 1)

\* C9 as stated: with an unsupported driver start never returns Ok.
C9_UnsupportedDriverFails ==
    (driver \notin SupportedDrivers /\ start_pc = "returned") => start_result # "ok"

\* C10 as stated: once the monitoring task has finished, start does not
\* return Ok.
C10_MonitorExitFails ==
    (monitor \in {"returned", "panicked"} /\ start_pc = "returned") => start_result # "ok"

\* The metric updates of the current iteration are complete and the probe
\* had returned r-kind: the iteration is at its tail, or over.
Recorded(kind) ==
    /\ result.kind = kind
    /\ \/ pc = "finish"
       \/ pc \in {"sleep", "top"} /\ outcome = outcome_of(result)

\* What the current iteration added to errors_total{error_type}.
ErrorsDelta(t) == DB_ERRORS[t] - metrics_base.errors[t]

\* What the current iteration added to tls_connection_errors_total{handshake}.
TlsErrorsDelta == TLS_CONNECTION_ERRORS - metrics_base.tls_errors

\* C11: an iteration whose probe returned a result annotated as read-only or
\* in recovery sets database_readonly to 1 and pulse to 0, adds 1 to
\* iterations_total{error} and to errors_total{query} and to no other error
\* type, adds nothing to iterations_total{success} and leaves
\* last_success_timestamp_seconds as it was.
C11_ReadOnlyResultEffects ==
    (Recorded("ok") /\ ~result.rw) =>
        /\ DB_READONLY = Some(1)
        /\ PULSE = 0
        /\ Delta("error") = 1
        /\ Delta("success") = 0
        /\ ErrorsDelta("query") = 1
        /\ \A t \in ErrorTypes \ {"query"} : ErrorsDelta(t) = 0
        /\ LAST_SUCCESS = metrics_base.last_success

\* A read-only result in the iteration after a successful one.
C11_Witness ==
    /\ pc = "finish"
    /\ result.kind = "ok"
    /\ ~result.rw
    /\ LAST_SUCCESS = Some(timestamp(1))
    /\ iter = 2
    /\ DB_READONLY = Some(1)

C14_RollbackFailureIsTransactionError ==
    (Recorded("err")
        /\ result.error \in {ErrTransactionUpdateFailed, ErrTransactionRollbackFailed}) =>
        ErrorsDelta("transaction") = 1

\* The words is_tls_error looks for, as the claim lists them.
TlsWords == {"ssl", "SSL", "tls", "TLS", "certificate", "Certificate"}

Returned(fn) == call # None /\ call[1].fn = fn /\ ret # None

\* The text holds the word w.
HasWord(text, w) == \E i \in 1 .. Len(text) : text[i] = w

\* The text holds "Access denied".
HasAccessDenied(text) ==
    \E i \in 1 .. (Len(text) - 1) : text[i] = "Access" /\ text[i + 1] = "denied"

\* The first-match scan of the claim; access_denied tells whether
\* 'Access denied' counts as an authentication keyword.
FirstMatch(text, access_denied) ==
    CASE \/ HasWord(text, "authentication")
         \/ HasWord(text, "password")
         \/ (access_denied /\ HasAccessDenied(text)) -> "authentication"
      [] HasWord(text, "timeout") -> "timeout"
      [] HasWord(text, "connection") \/ HasWord(text, "refused") -> "connection"
      [] HasWord(text, "transaction") -> "transaction"
      [] OTHER -> "query"

\* C13 as stated: for both drivers the error type is the first match of the
\* case-sensitive scan in which 'authentication', 'password' or
\* 'Access denied' gives authentication, then 'timeout', then 'connection' or
\* 'refused', then 'transaction', else query.
C13_SameScanForBothDrivers ==
    Returned("error_type") => ret[1] = FirstMatch(call[1].error_str, TRUE)

\* C13 amended: the mysql arm scans as stated; the postgres arm scans with the
\* same priority but 'Access denied' is no keyword there (only
\* 'authentication' or 'password' give authentication).
C13_ScanPerDriver ==
    Returned("error_type") =>
        ret[1] = FirstMatch(call[1].error_str, call[1].database = "mysql")

\* The postgres arm on a text whose only keyword is 'Access denied'.
C13_Witness ==
    /\ Returned("error_type")
    /\ call[1].database = "postgres"
    /\ call[1].error_str = <<"Access", "denied">>
    /\ ret = Some("query")

\* C16: for every interval and measured runtime the pacing sleep is exactly
\* interval - runtime, in clock units finer than a second, when
\* runtime < interval, and there is none when runtime >= interval.
C16_SleepIsExactRemainder ==
    Returned("remaining_sleep_duration") =>
        ret[1] = IF call[1].runtime < call[1].wait_time
                 THEN Some(call[1].wait_time - call[1].runtime)
                 ELSE None

\* A remainder of less than a second is slept.
C16_Witness ==
    /\ Returned("remaining_sleep_duration")
    /\ call[1].wait_time = wait_time_of(1)
    /\ call[1].wait_time - call[1].runtime = 1
    /\ ret = Some(Some(1))

\* ------------------------------------------------------------------- C17
ReportedSuccess == presult = Some([kind |-> "ok", rw |-> TRUE])

ReportedError == ppc = "done" /\ presult # None /\ presult[1].kind = "err"

\* The row the verifying SELECT returned is the row this iteration wrote.
SelectedWhatWasWritten ==
    /\ probe.row # None
    /\ probe.row[1].t1 = timestamp(probe.now)
    /\ probe.row[1].uuid = probe.uuid[1]

\* C17: an iteration reported as successful selected, at the id it upserted,
\* a row whose (t1, uuid) is the (now_unix, uuid) it wrote; once the
\* verifying SELECT was issued and gave no row, or a row that differs in t1
\* or in uuid, the iteration has failed and no later statement was issued.
C17_SuccessMeansRowVerified ==
    /\ ReportedSuccess => SelectedWhatWasWritten
    /\ ("SELECT" \in issued /\ ~SelectedWhatWasWritten) =>
            /\ ReportedError
            /\ issued \cap {"BEGIN", "TX UPSERT", "DELETE", "DROP TABLE"} = {}

\* A successful iteration during which other instances wrote to the table.
C17_Witness ==
    /\ ReportedSuccess
    /\ SelectedWhatWasWritten
    /\ budget = 0
    /\ \E k \in RandomIds(MaxRange) :
            tbl.exists /\ tbl.rows[k] # None /\ tbl.rows[k][1].uuid = "u3"

\* ------------------------------------------------------------------- C18
\* C18: an iteration reported as successful read t1 = 0 at the transient id
\* inside the transaction and read something else than t1 = 0 (another value
\* or no row) at that id after the rollback.
C18_SuccessMeansRollbackVerified ==
    ReportedSuccess =>
        /\ probe.updated_value = Some(Some(0))
        /\ probe.rolled_back_value # None
        /\ probe.rolled_back_value[1] # Some(0)

C18_Witness ==
    /\ ReportedSuccess
    /\ probe.updated_value = Some(Some(0))
    /\ probe.rolled_back_value = Some(None)
    /\ "ROLLBACK" \in issued

\* ------------------------------------------------------------------- C19
\* C19: on a database that is read-only or in recovery the probe issues no
\* statement of the read/write part (no CREATE TABLE, upsert, transaction
\* test, cleanup DELETE, DROP TABLE), leaves the table as it found it, and
\* what it returns is the annotated result.
C19_ReadOnlyRunsNoReadWrite ==
    db_posture # "writable" =>
        /\ issued \cap ReadWriteStatements = {}
        /\ tbl \in TablesFound(driver)
        /\ ppc = "done" => presult = Some([kind |-> "ok", rw |-> FALSE])

C19_Witness ==
    /\ db_posture = "tx_read_only"
    /\ ppc = "done"
    /\ presult = Some([kind |-> "ok", rw |-> FALSE])
    /\ issued = {"CONNECT", "SET STATEMENT TIMEOUT", "SET LOCK TIMEOUT", "VERSION", "HOST",
                 "UPTIME", "READ ONLY?", "TLS"}

\* ------------------------------------------------------------------- C20
\* What a get of key has to answer: the metadata of the last set of key, if
\* there was one and less than the TTL has elapsed since.
Fresh(key) ==
    IF last_set[key] # None /\ clock - last_set[key][1].at < ttl
    THEN Some(last_set[key][1].metadata)
    ELSE None

\* C20: get(key) returns the stored metadata iff an entry for key exists and
\* strictly less than the TTL has elapsed since it was stored; with TTL = 0
\* every get is a miss.
C20_GetHitsIffFresh ==
    got # None =>
        /\ got[1].value = Fresh(got[1].key)
        /\ ttl = 0 => got[1].value = None

\* A miss with TTL = 0 right after a set of the same key.
C20_Witness ==
    /\ ttl = 0
    /\ got # None
    /\ got[1].value = None
    /\ last_set[got[1].key] # None
    /\ last_set[got[1].key][1].at = clock

\* ------------------------------------------------------------------- C21
\* C21: the cached lookup probes only on a miss.  When the cache holds an
\* entry for the key younger than the TTL, the lookup returns that metadata
\* without probing, stores nothing, and no probe error is counted for it;
\* otherwise it probes.  The cache is written by a lookup only to store the
\* metadata of a successful probe; a probe that failed or found no
\* certificate leaves the cache as it was.
C21_ProbeOnlyOnMiss ==
    /\ [][(lookup.pc = "idle" /\ lookup'.pc # "idle") =>
            IF Fresh(lookup'.key) # None
            THEN /\ lookup'.pc = "done"
                 /\ ~lookup'.probed
                 /\ lookup'.ret = [kind |-> "ok", metadata |-> Fresh(lookup'.key)]
            ELSE lookup'.pc = "probe"]_vars
    /\ [][(lookup.pc # "idle" /\ lookup'.pc = "idle"
                /\ TLS_CERT_PROBE_ERRORS' # TLS_CERT_PROBE_ERRORS) =>
            lookup.probed /\ lookup.ret.kind = "err"]_vars
    /\ [][cache' # cache =>
            /\ lookup.pc = "store"
            /\ lookup.probed
            /\ lookup.ret.kind = "ok" /\ lookup.ret.metadata # None
            /\ cache' = [cache EXCEPT ![lookup.key] =
                            Some([metadata |-> lookup.ret.metadata[1], at |-> clock])]]_vars
    /\ [][(lookup.pc = "probe" /\ lookup'.pc = "done") =>
            /\ cache' = cache
            /\ lookup'.ret \in {[kind |-> "err"], [kind |-> "ok", metadata |-> None]}]_vars

\* A hit returned without a probe after an earlier lookup had failed.
C21_Witness ==
    /\ lookup.pc = "done"
    /\ ~lookup.probed
    /\ lookup.ret.kind = "ok"
    /\ lookup.ret.metadata = Fresh(lookup.key)
    /\ TLS_CERT_PROBE_ERRORS = 1
    /\ clock > 0

\* ------------------------------------------------------------------- C22
\* The age of the entry of key has reached the TTL.
Expired(key) == cache[key] # None /\ clock - cache[key][1].at >= ttl

\* C22: cleanup() removes exactly the entries whose age has reached the TTL,
\* leaves every other entry as it is (value and insertion time), and no get
\* answers differently after it than before it.
C22_CleanupRemovesExactlyExpired ==
    [][CacheCleanup =>
        \A k \in CacheKeys :
            /\ Expired(k) => cache'[k] = None
            /\ ~Expired(k) => cache'[k] = cache[k]
            /\ get(cache', k) = get(cache, k)
            /\ get(cache', k) = Fresh(k)]_vars

\* cleanup() has removed the expired entry of one key and kept the younger
\* entry of the other.
C22_Witness ==
    /\ ttl > 0
    /\ \E k1, k2 \in CacheKeys :
        /\ cache[k1] = None
        /\ last_set[k1] # None
        /\ clock - last_set[k1][1].at >= ttl
        /\ cache[k2] # None
        /\ cache[k2] = last_set[k2]
        /\ clock - cache[k2][1].at < ttl

\* ------------------------------------------------------------------- C23
\* C23: with tasks calling set in any interleaving, a get(k) made less than
\* the TTL after the last set of k took effect returns the metadata of that
\* set, and a set of one key changes the answer of get for no other key.
C23_LastSetWins ==
    /\ [](got # None =>
            LET k == got[1].key
            IN  (last_set[k] # None /\ clock - last_set[k][1].at < ttl) =>
                    got[1].value = Some(last_set[k][1].metadata))
    /\ [][\A k \in CacheKeys :
            (last_set'[k] = last_set[k]) => get(cache', k) = get(cache, k)]_<< cache, last_set >>

\* A get within the TTL answered with the set that took effect last, while the
\* other key holds an older entry and another task's set of the same key, with
\* other metadata, still waits for the lock.
C23_Witness ==
    /\ got # None
    /\ ttl > 0
    /\ clock > 0
    /\ got[1].value # None
    /\ got[1].value = Some(last_set[got[1].key][1].metadata)
    /\ last_set[got[1].key][1].at = clock
    /\ \E k \in CacheKeys : k # got[1].key /\ cache[k] # None /\ cache[k][1].at < clock
    /\ \E t \in Tasks : setters[t] # None /\ setters[t][1].key = got[1].key
                            /\ setters[t][1].metadata # got[1].value[1]

\* ------------------------------------------------------------------- C24
\* C24: cert_expiry_days is floor((notAfter - now) / 24h) for every
\* certificate and every now, negative for an expired certificate.
C24_ExpiryDaysIsFloor ==
    Returned("calculate_expiry_days") =>
        /\ ret[1] = (call[1].not_after - call[1].now) \div SecsPerDay
        /\ call[1].not_after < call[1].now => ret[1] < 0

\* ------------------------------------------------------------------- C25
\* C25: the id an iteration draws satisfies 0 <= id < range; with range = 1
\* the draw does not panic and the id is 0.
C25_IdWithinRange ==
    /\ probe # None /\ probe.id # None =>
            0 <= probe.id[1] /\ probe.id[1] < probe.range
    /\ probe # None /\ probe.range = 1 =>
            /\ ppc # "panicked"
            /\ probe.id # None => probe.id[1] = 0

\* An iteration with range = 1 that drew 0 and ran to a successful end.
C25_Witness ==
    /\ ReportedSuccess
    /\ probe.range = 1
    /\ probe.id = Some(0)

\* ------------------------------------------------------------------- C26
\* The positions of one iteration in the order test_rw_with_table visits them.
PositionsInOrder ==
    <<"connect", "create_database", "reconnect", "statement_timeout",
      "statement_timeout_fallback", "lock_timeout", "version", "host", "uptime",
      "read_only", "replication_lag", "blocking", "uuid_extension", "create_table",
      "upsert", "select", "begin", "tx_upsert", "tx_update", "tx_select", "rollback",
      "select_after", "cleanup", "row_count", "hourly_drop", "sizes", "tls", "done">>

Rank(position) ==
    CHOOSE i \in 1 .. Len(PositionsInOrder) : PositionsInOrder[i] = position

\* Connect, version fetch, read-only detection, table creation, upsert,
\* verifying select and the statements of the transaction test.
MandatoryForBoth ==
    {"CONNECT", "CREATE DATABASE", "RECONNECT", "VERSION", "READ ONLY?",
     "CREATE EXTENSION", "CREATE TABLE", "UPSERT", "SELECT", "BEGIN", "TX UPSERT",
     "TX UPDATE", "TX SELECT", "ROLLBACK", "SELECT AFTER ROLLBACK"}

\* The session timeouts: on MySQL only the lock-wait timeout is mandatory.
MandatoryStatements(db_driver) ==
    MandatoryForBoth \cup {"SET LOCK TIMEOUT"}
    \cup (IF db_driver = "mysql" THEN {} ELSE {"SET STATEMENT TIMEOUT"})

\* A statement of `mandatory` has failed: the iteration is over with an error.
EndsAtOnce(mandatory) ==
    run.failed \cap mandatory # {} =>
        /\ ppc = "done"
        /\ presult # None
        /\ presult[1].kind = "err"

\* Setting the statement timeout has failed: the one SET of Postgres, or on
\* MySQL both the SET and its fallback.
StatementTimeoutFailed ==
    /\ "SET STATEMENT TIMEOUT" \in run.failed
    /\ driver = "mysql" => "SET STATEMENT TIMEOUT FALLBACK" \in run.failed

BestEffortStatements ==
    {"HOST", "UPTIME", "REPLICATION LAG", "BLOCKING", "DELETE", "ROW COUNT",
     "COUNT", "DROP TABLE", "SIZES", "TLS"}

InReadWrite == issued \cap ReadWriteStatements # {} \/ ppc \in ReadWritePositions

\* C28 as stated: the read/write steps run only on a session where both the
\* statement timeout and the lock-wait timeout were set successfully.
C28_BothTimeoutsSet ==
    InReadWrite => run.session = {"statement", "lock"}

\* C28: the read/write steps run only on a session where the lock-wait
\* timeout was set successfully, on Postgres also the statement timeout; on
\* MySQL the statement timeout was attempted, with max_execution_time and,
\* when that failed, max_statement_time, and is set unless both failed.
C28_TimeoutsBeforeReadWrite ==
    /\ InReadWrite =>
        /\ "lock" \in run.session
        /\ "SET LOCK TIMEOUT" \notin run.failed
        /\ driver # "mysql" =>
                ("statement" \in run.session /\ "SET STATEMENT TIMEOUT" \notin run.failed)
        /\ driver = "mysql" =>
                /\ "SET STATEMENT TIMEOUT" \in issued
                /\ "SET STATEMENT TIMEOUT" \in run.failed
                        => "SET STATEMENT TIMEOUT FALLBACK" \in issued
                /\ "statement" \notin run.session <=> StatementTimeoutFailed
    /\ ("SET LOCK TIMEOUT" \in run.failed
            \/ (driver # "mysql" /\ "SET STATEMENT TIMEOUT" \in run.failed))
        => (ReportedError /\ ~InReadWrite)

\* A MySQL iteration that verified its row and its rollback although neither
\* statement-timeout SET had worked.
C28_Witness ==
    /\ driver = "mysql"
    /\ ReportedSuccess
    /\ run.session = {"lock"}
    /\ StatementTimeoutFailed
    /\ "SELECT AFTER ROLLBACK" \in issued

\* ------------------------------------------------------------------- C29
\* C29: the database is created, and the connect repeated once, only after
\* the first connect was answered with database-does-not-exist, and then
\* always; any other connect error, a failed CREATE DATABASE and a failed
\* reconnect end the iteration with an error and without another attempt.
C29_CreateAndReconnectOnce ==
    /\ run.attempts <= 2
    /\ run.first_connect = "ok" => run.attempts = 1
    /\ "CREATE DATABASE" \in issued => run.first_connect = "db_missing"
    /\ "RECONNECT" \in issued =>
            /\ "CREATE DATABASE" \in issued \ run.failed
            /\ run.attempts = 2
    /\ (run.first_connect = "db_missing" /\ ppc # "create_database")
            => "CREATE DATABASE" \in issued
    /\ ("CREATE DATABASE" \in issued \ run.failed /\ ppc # "reconnect")
            => "RECONNECT" \in issued
    /\ run.first_connect = "error" =>
            (ReportedError /\ run.attempts = 1 /\ issued = {"CONNECT"})
    /\ "CREATE DATABASE" \in run.failed =>
            (ReportedError /\ run.attempts = 1 /\ issued = {"CONNECT", "CREATE DATABASE"})
    /\ "RECONNECT" \in run.failed =>
            /\ ReportedError
            /\ run.attempts = 2
            /\ issued = {"CONNECT", "CREATE DATABASE", "RECONNECT"}

\* An iteration that found no database, created it, connected again and ran
\* to a successful end.
C29_Witness ==
    /\ ReportedSuccess
    /\ run.first_connect = "db_missing"
    /\ run.db_exists
    /\ run.attempts = 2
    /\ {"CREATE DATABASE", "RECONNECT", "CREATE TABLE"} \subseteq issued

\* ------------------------------------------------------------------- C30
\* C30: for every now and both drivers the transient id of the rollback test
\* satisfies 0 <= rid < 2,147,483,647.
C30_RollbackIdNonNegative ==
    Returned("rollback_test_id") => (0 <= ret[1] /\ ret[1] < I32Max)

\* ------------------------------------------------------------------- C31
\* The iteration has gone by its hourly drop step.
PastHourlyDrop == ppc \in {"sizes", "tls", "done"} /\ "ROW COUNT" \in issued

\* C31: an iteration issues DROP TABLE exactly when it reaches the hourly
\* drop step with now.minute() = 0, an id below 5 and a COUNT(*) that was
\* answered with less than 100,000; by then its verifying SELECT has returned
\* the row it wrote and its rollback test has passed.
C31_DropIffHourlySmallTable ==
    /\ ~PastHourlyDrop => "DROP TABLE" \notin issued
    /\ PastHourlyDrop =>
        ("DROP TABLE" \in issued <=>
            /\ minute(probe.now) = 0
            /\ probe.id[1] < 5
            /\ probe.exact_count # None
            /\ probe.exact_count[1] < 100000)
    /\ "DROP TABLE" \in issued =>
        /\ SelectedWhatWasWritten
        /\ probe.updated_value = Some(Some(0))
        /\ probe.rolled_back_value # None
        /\ probe.rolled_back_value[1] # Some(0)
        /\ ~ReportedError

\* An iteration at minute 0 that counted 99,999 rows and dropped the table,
\* after other instances had written to it.
C31_Witness ==
    /\ "DROP TABLE" \in issued
    /\ probe.exact_count = Some(99999)
    /\ ~tbl.exists
    /\ budget = 0
    /\ ReportedSuccess

\* ------------------------------------------------------------------- C32
\* C32: the error_type a failed certificate probe is counted under is the
\* phase in which it failed: connection for the TCP connect, handshake for
\* the STARTTLS negotiation and the TLS handshake, parse for the certificate.
C32_ErrorTypeIsPhase ==
    Returned("cert_probe_error_type") => ret[1] = call[1].phase

\* ------------------------------------------------------------------- C33
\* C33: when Ssl_server_not_after parses to a date, cert_expiry_days is the
\* value computed from it; the probe result fills in only what is absent:
\* subject and issuer, and the expiry when the status variable gave none.
C33_StatusExpiryFirst ==
    Returned("mysql_tls_metadata") =>
        /\ call[1].not_after_days # None =>
                ret[1].cert_expiry_days = call[1].not_after_days
        /\ (call[1].not_after_days = None /\ call[1].probe_metadata # None) =>
                ret[1].cert_expiry_days = call[1].probe_metadata[1].cert_expiry_days
        /\ call[1].probe_metadata # None =>
                /\ ret[1].cert_subject = call[1].probe_metadata[1].cert_subject
                /\ ret[1].cert_issuer = call[1].probe_metadata[1].cert_issuer

\* ------------------------------------------------------------------- C35
\* The first byte after the protocol version that is 0, counted from 0.
TerminatorAt(payload) ==
    CHOOSE i \in 1 .. (Len(payload) - 1) :
        payload[i + 1] = 0 /\ \A j \in 1 .. (i - 1) : payload[j + 1] # 0

HasTerminator(payload) == \E i \in 2 .. Len(payload) : payload[i] = 0

\* C35: parse_mysql_handshake answers every byte sequence with capabilities
\* and charset or with an error, reading no byte beyond the payload: an error
\* for the empty payload, for one without version terminator and for one
\* that ends before the lower capability flags do; otherwise the flags are
\* the two little-endian bytes after the 13 bytes that follow the terminator.
C35_ParseNeverPanics ==
    Returned("parse_mysql_handshake") =>
        LET payload == call[1].payload
        IN  /\ ret[1].kind \in {"ok", "err"}
            /\ Len(payload) = 0 => ret[1].kind = "err"
            /\ ~HasTerminator(payload) => ret[1].kind = "err"
            /\ HasTerminator(payload) =>
                IF Len(payload) < TerminatorAt(payload) + 1 + 15
                THEN ret[1].kind = "err"
                ELSE /\ ret[1].kind = "ok"
                     /\ ret[1].capabilities % 65536 =
                            payload[TerminatorAt(payload) + 15]
                            + 256 * payload[TerminatorAt(payload) + 16]

\* A packet with a version string, cut right after the lower capability
\* flags, which advertise CLIENT_SSL.
C35_Witness ==
    /\ Returned("parse_mysql_handshake")
    /\ ret[1] = [kind |-> "ok", capabilities |-> 2048, charset |-> 0]
    /\ Len(call[1].payload) = 18

\* ------------------------------------------------------------------- C34
\* The server agreed to TLS: Postgres answered the SSLRequest with 'S', or
\* the first packet of MySQL is complete up to its lower capability flags
\* and has bit 0x08 set in the second byte of them (CLIENT_SSL, 0x0800).
ServerAgreedToTls ==
    IF lookup.protocol = "Postgres"
    THEN lookup.response = <<83>>
    ELSE /\ HasTerminator(lookup.payload)
         /\ Len(lookup.payload) >= TerminatorAt(lookup.payload) + 16
         /\ (lookup.payload[TerminatorAt(lookup.payload) + 16] \div 8) % 2 = 1

\* C34: the probe starts the TLS handshake only after the server agreed to
\* TLS, on Postgres in answer to the 8-byte SSLRequest; a probe of any other
\* server ends with an error without a handshake being attempted.
C34_HandshakeOnlyAfterAgreement ==
    /\ lookup.pc \in {"connector", "tls_handshake", "extract"} => ServerAgreedToTls
    /\ lookup.handshakes > 0 =>
        /\ ServerAgreedToTls
        /\ lookup.handshakes = 1
        /\ lookup.protocol = "Postgres" => lookup.sent = <<0, 0, 0, 8, 4, 210, 22, 47>>
        /\ lookup.protocol = "Mysql" => lookup.sent = <<"SSLRequest">>
    /\ (lookup.pc = "done" /\ ~ServerAgreedToTls) =>
        /\ lookup.ret # None
        /\ lookup.ret[1].kind = "err"
        /\ lookup.handshakes = 0

\* A MySQL server that advertised CLIENT_SSL, and the handshake made with it.
C34_Witness ==
    /\ lookup.protocol = "Mysql"
    /\ lookup.handshakes = 1
    /\ lookup.capabilities = Some(2048)
    /\ lookup.pc = "done"
    /\ lookup.ret # None
    /\ lookup.ret[1].kind = "ok"
\* ---------------------------------------------------------------- C36
\* The gauges that describe the last result: database_version_info,
\* database_readonly, last_success_timestamp_seconds, tls_info and
\* tls_cert_expiry_days.
result_gauges ==
    << DATABASE_VERSION_INFO, DB_READONLY, LAST_SUCCESS, TLS_INFO,
       TLS_CERT_EXPIRY_DAYS >>

\* A step of an iteration whose probe returned no result (it returned an
\* error or panicked), or a step of the panic handler.
StepWithoutResult ==
    \/ result.kind # "ok" /\ result'.kind # "ok"
    \/ pc \in {"caught", "panic_sleep"}

tls_info_series(database) == {s \in TLS_INFO : s[1] = database}

\* C37: at every scrape at most one dbpulse_tls_info series exists per
\* database, also after the negotiated version or cipher has changed.
C37_OneTlsInfoSeries ==
    CanScrape => Cardinality(tls_info_series(metric_db(driver))) <= 1

\* ---------------------------------------------------------------- C38
\* The iteration ended in an error before its transaction test began.
FailedBeforeTransaction ==
    /\ presult # None
    /\ presult[1].kind = "err"
    /\ "SELECT" \in issued
    /\ "BEGIN" \notin issued

\* C38: with another instance working on the same monitor table of a healthy
\* writable database, no interleaving of the two instances' statements makes
\* the insert-verify check fail with "Records don't match" or with the
\* missing row's "Expected records".
C38_InsertVerifyNeverCollides ==
    (db_posture = "writable" /\ run.failed = {} /\ FailedBeforeTransaction)
        => presult[1].error \notin {ErrRecordsDontMatch, ErrExpectedRecords}

\* ---------------------------------------------------------------- C39
\* C39: the DROP TABLE of another instance never makes an iteration of this
\* instance fail, wherever it falls after this instance's CREATE TABLE: no
\* statement of a healthy iteration is answered with the missing table.
C39_DropNeverFailsOthers ==
    (db_posture = "writable" /\ run.failed = {} /\ presult # None
        /\ "CREATE TABLE" \in issued)
        => ~(presult[1].kind = "err" /\ presult[1].error = ErrTableMissing)

\* ---------------------------------------------------------------- C40
\* C40: the sleep that paces the loop never exceeds one interval, whatever
\* runtime the iteration measured, a negative one included.
C40_SleepAtMostOneInterval ==
    sleep_for # None => sleep_for[1] <= wait_time_of(every)

====
